---- MODULE Spec2Model ----
(***************************************************************************)
(* DurableRider: the durability metrics engine of src/lib/metrics.js.      *)
(*                                                                         *)
(* The engine is a set of pure functions over JavaScript values.  A value  *)
(* is modelled as a record [k, n, d]: k is the kind ("num", "null",        *)
(* "undef", "nan", "inf", "ninf", "str"); a "num" is the exact rational    *)
(* n/d in lowest terms with d > 0.  The arithmetic operators below follow  *)
(* ECMAScript: null converts to 0, undefined and non-numeric strings to    *)
(* NaN, x/0 is NaN or an infinity, comparisons with NaN are false.         *)
(***************************************************************************)
EXTENDS Integers, Sequences, FiniteSets, TLC

VARIABLES pc, raw, streams, options, segments, metrics, history, baseline, args, result, calls,
          db, net, clock, buckets

vars ==
  <<pc, raw, streams, options, segments, metrics, history, baseline, args, result, calls,
    db, net, clock, buckets>>

(***************************************************************************)
(* JavaScript values and arithmetic                                        *)
(***************************************************************************)
Null == [k |-> "null", n |-> 0, d |-> 1]
Undef == [k |-> "undef", n |-> 0, d |-> 1]
NaN == [k |-> "nan", n |-> 0, d |-> 1]
PosInf == [k |-> "inf", n |-> 0, d |-> 1]
NegInf == [k |-> "ninf", n |-> 0, d |-> 1]
Str == [k |-> "str", n |-> 0, d |-> 1]

Abs(x) == IF x < 0 THEN -x ELSE x

RECURSIVE GCD(_, _)
GCD(a, b) == IF b = 0 THEN a ELSE GCD(b, a % b)

\* n/d divided through by the common factor g, for d > 0
Reduced(n, d, g) == [k |-> "num", n |-> n \div g, d |-> d \div g]

\* the rational n/d (d # 0) in lowest terms
Rat(n, d) ==
  IF d < 0 THEN Reduced(-n, -d, GCD(Abs(n), -d)) ELSE Reduced(n, d, GCD(Abs(n), d))

\* (a/b) * (c/d) with g1 the common factor of a and d, g2 the one of c and b
CrossMul(a, b, c, d, g1, g2) == Rat((a \div g1) * (c \div g2), (b \div g2) * (d \div g1))

\* (a/b) * (c/d) for b, d # 0, cancelling the common factors before multiplying
RatMul(a, b, c, d) == CrossMul(a, b, c, d, GCD(Abs(a), Abs(d)), GCD(Abs(c), Abs(b)))

Whole(n) == [k |-> "num", n |-> n, d |-> 1]

\* value == null (true of null and undefined)
IsNullish(v) == v.k \in {"null", "undef"}

\* ToNumber
ToNumber(v) ==
  CASE v.k = "null" -> Whole(0)
    [] v.k \in {"undef", "str", "nan"} -> NaN
    [] OTHER -> v

IsNaN(v) == v.k = "nan"

\* a finite number (neither NaN nor an infinity), after ToNumber
IsFinite(v) == ToNumber(v).k = "num"

\* the sign of a converted value that is not NaN
Sign(x) ==
  CASE x.k = "inf" -> 1
    [] x.k = "ninf" -> -1
    [] OTHER -> IF x.n > 0 THEN 1 ELSE IF x.n < 0 THEN -1 ELSE 0

Signed(s) == IF s > 0 THEN PosInf ELSE NegInf

\* the operators below with the suffix Num take operands already converted by ToNumber
NegNum(x) ==
  CASE x.k = "nan" -> NaN
    [] x.k = "inf" -> NegInf
    [] x.k = "ninf" -> PosInf
    [] OTHER -> [k |-> "num", n |-> -x.n, d |-> x.d]

\* -a
JsNeg(a) == NegNum(ToNumber(a))

\* x + y for finite x, y with g the common factor of their denominators
AddOver(x, y, g) == Rat(x.n * (y.d \div g) + y.n * (x.d \div g), (x.d \div g) * y.d)

AddNum(x, y) ==
  IF x.k = "nan" \/ y.k = "nan" THEN NaN
  ELSE IF x.k = "num" /\ y.k = "num"
    THEN IF x.d = y.d
           THEN (IF x.d = 1 THEN Whole(x.n + y.n) ELSE Rat(x.n + y.n, x.d))
           ELSE AddOver(x, y, GCD(x.d, y.d))
  ELSE IF x.k = "num" THEN y
  ELSE IF y.k = "num" THEN x
  ELSE IF x.k = y.k THEN x ELSE NaN

\* a + b on numbers
JsAdd(a, b) == AddNum(ToNumber(a), ToNumber(b))

\* a - b
JsSub(a, b) == AddNum(ToNumber(a), NegNum(ToNumber(b)))

MulNum(x, y) ==
  IF x.k = "nan" \/ y.k = "nan" THEN NaN
  ELSE IF x.k = "num" /\ y.k = "num"
    THEN IF x.d = 1 /\ y.d = 1 THEN Whole(x.n * y.n) ELSE RatMul(x.n, x.d, y.n, y.d)
  ELSE IF Sign(x) * Sign(y) = 0 THEN NaN
  ELSE Signed(Sign(x) * Sign(y))

\* a * b
JsMul(a, b) == MulNum(ToNumber(a), ToNumber(b))

DivNum(x, y) ==
  IF x.k = "nan" \/ y.k = "nan" THEN NaN
  ELSE IF y.k = "num" /\ y.n = 0
    THEN (IF Sign(x) = 0 THEN NaN ELSE Signed(Sign(x)))
  ELSE IF x.k = "num" /\ y.k = "num" THEN RatMul(x.n, x.d, y.d, y.n)
  ELSE IF x.k = "num" THEN Whole(0)
  ELSE IF y.k = "num" THEN Signed(Sign(x) * Sign(y))
  ELSE NaN

\* a / b
JsDiv(a, b) == DivNum(ToNumber(a), ToNumber(b))

\* x < y for finite x, y with g the common factor of their denominators
LtOver(x, y, g) == x.n * (y.d \div g) < y.n * (x.d \div g)

LtNum(x, y) ==
  IF x.k = "nan" \/ y.k = "nan" THEN FALSE
  ELSE IF x.k = "num" /\ y.k = "num"
    THEN IF x.d = y.d THEN x.n < y.n ELSE LtOver(x, y, GCD(x.d, y.d))
  ELSE IF x.k = y.k THEN FALSE
  ELSE x.k = "ninf" \/ y.k = "inf"

\* a < b
JsLt(a, b) == LtNum(ToNumber(a), ToNumber(b))

EqNum(x, y) == x.k # "nan" /\ y.k # "nan" /\ x = y

\* a === b on numbers
JsEq(a, b) == EqNum(ToNumber(a), ToNumber(b))

LeNum(x, y) == LtNum(x, y) \/ EqNum(x, y)

\* a <= b
JsLe(a, b) == LeNum(ToNumber(a), ToNumber(b))

\* a > b
JsGt(a, b) == LtNum(ToNumber(b), ToNumber(a))

\* a >= b
JsGe(a, b) == LeNum(ToNumber(b), ToNumber(a))

\* value === 0 (no conversion)
IsZero(v) == v.k = "num" /\ v.n = 0

\* truthiness of a value
Truthy(v) == v.k \in {"inf", "ninf", "str"} \/ (v.k = "num" /\ v.n # 0)

\* a ?? b
Coalesce(a, b) == IF IsNullish(a) THEN b ELSE a

MaxNum(x, y) == IF x.k = "nan" \/ y.k = "nan" THEN NaN ELSE IF LtNum(x, y) THEN y ELSE x

MathMax(a, b) == MaxNum(ToNumber(a), ToNumber(b))

MinNum(x, y) == IF x.k = "nan" \/ y.k = "nan" THEN NaN ELSE IF LtNum(y, x) THEN y ELSE x

MathMin(a, b) == MinNum(ToNumber(a), ToNumber(b))

\* arr[i] with a 0-based index: undefined outside the array
At(arr, i) == IF i >= 0 /\ i < Len(arr) THEN arr[i + 1] ELSE Undef

\* arr.slice(from, to) with 0-based 0 <= from
Slice(arr, from, to) ==
  LET hi == IF to > Len(arr) THEN Len(arr) ELSE to
  IN IF from >= hi THEN <<>> ELSE SubSeq(arr, from + 1, hi)

RECURSIVE SumLoop(_, _)
\* values.reduce((acc, value) => acc + value, 0): st is the loop state
SumLoop(values, st) ==
  IF st.i > Len(values) THEN st.acc
  ELSE SumLoop(values, [i |-> st.i + 1, acc |-> JsAdd(st.acc, values[st.i])])

Sum(values) == SumLoop(values, [i |-> 1, acc |-> Whole(0)])

(***************************************************************************)
(* Stream Sanitizer                                                        *)
(***************************************************************************)
\* a clamp with Math.min and Math.max the wrong way round
clampSwapped(value, min, max) ==
  IF IsNullish(value) \/ value.k = "nan" THEN Null
  ELSE MathMax(MathMin(value, min), max)

clamp(value, min, max) ==
  IF IsNullish(value) \/ value.k = "nan" THEN Null
  ELSE MathMin(MathMax(value, min), max)

(***************************************************************************)
(* Segment Planner                                                         *)
(***************************************************************************)
RECURSIVE quartileWalk(_, _, _, _, _, _)
\* the for loop of quartileSegments: i is the 0-based sample index
quartileWalk(times, boundaries, i, currentStart, currentBoundaryIndex, segs) ==
  IF i >= Len(times) THEN [segs |-> segs, currentStart |-> currentStart]
  ELSE IF currentBoundaryIndex < Len(boundaries)
          /\ JsGe(At(times, i), At(boundaries, currentBoundaryIndex))
    THEN quartileWalk(times, boundaries, i + 1, i, currentBoundaryIndex + 1,
                      Append(segs, <<currentStart, i>>))
    ELSE quartileWalk(times, boundaries, i + 1, currentStart, currentBoundaryIndex, segs)

\* a planner that pads with the length instead of the last index
padSegmentsPastEnd(segs, last) ==
  segs \o [i \in 1..(4 - Len(segs)) |-> <<last + 1, last + 1>>]

RECURSIVE padSegments(_, _)
\* while (segments.length < 4) segments.push([last, last])
padSegments(segs, last) ==
  IF Len(segs) < 4 THEN padSegments(Append(segs, <<last, last>>), last) ELSE segs

\* [0.25, 0.5, 0.75].map((fraction) => durationSeconds * fraction)
boundariesOf(durationSeconds) ==
  <<JsMul(durationSeconds, Rat(1, 4)),
    JsMul(durationSeconds, Rat(1, 2)),
    JsMul(durationSeconds, Rat(3, 4))>>

\* the statements after the for loop: close the open segment, pad, keep four
closeSegments(walked, last) ==
  SubSeq(padSegments(Append(walked.segs, <<walked.currentStart, last>>), last), 1, 4)

quartileSegments(times, totalDuration) ==
  closeSegments(quartileWalk(times,
                             boundariesOf(Coalesce(At(times, Len(times) - 1), totalDuration)),
                             0, 0, 0, <<>>),
                Len(times) - 1)

combineSegments(a, b) == <<a[1], b[2]>>

NoPlan == [isNull |-> TRUE, quartiles |-> <<>>, firstHalf |-> <<>>, secondHalf |-> <<>>,
           early |-> <<>>, late |-> <<>>]

\* the object returned by computeSegments
planOf(quartiles) ==
  [isNull |-> FALSE,
   quartiles |-> quartiles,
   firstHalf |-> combineSegments(quartiles[1], quartiles[2]),
   secondHalf |-> combineSegments(quartiles[3], quartiles[4]),
   early |-> quartiles[1],
   late |-> quartiles[4]]

computeSegments(s) ==
  IF Len(s.time) = 0 THEN NoPlan
  ELSE planOf(quartileSegments(s.time, At(s.time, Len(s.time) - 1)))

sliceSegment(arr, segment) == Slice(arr, segment[1], segment[2] + 1)

(***************************************************************************)
(* Windowed Statistics                                                     *)
(***************************************************************************)
rebaseTime(values) ==
  IF Len(values) = 0 THEN <<>>
  ELSE [i \in 1..Len(values) |-> JsSub(values[i], values[1])]

mean(values) ==
  IF Len(values) = 0 THEN Null ELSE JsDiv(Sum(values), Whole(Len(values)))

RECURSIVE shrinkWindowEarly(_, _, _, _, _)
\* a window that is shrunk while its span is >= windowSeconds
shrinkWindowEarly(values, times, windowSeconds, end, w) ==
  IF JsGe(JsSub(At(times, end), At(times, w.start)), windowSeconds) /\ w.start < end
    THEN shrinkWindowEarly(values, times, windowSeconds, end,
                           [start |-> w.start + 1,
                            sum |-> JsSub(w.sum, At(values, w.start)),
                            count |-> w.count - 1])
    ELSE w

RECURSIVE shrinkWindow(_, _, _, _, _)
\* while (times[end] - times[start] > windowSeconds && start < end): drop
\* values[start]; w is the window [start, sum, count]
shrinkWindow(values, times, windowSeconds, end, w) ==
  IF JsGt(JsSub(At(times, end), At(times, w.start)), windowSeconds) /\ w.start < end
    THEN shrinkWindow(values, times, windowSeconds, end,
                      [start |-> w.start + 1,
                       sum |-> JsSub(w.sum, At(values, w.start)),
                       count |-> w.count - 1])
    ELSE w

\* times[end] - times[start] >= windowSeconds - 1
windowReached(times, windowSeconds, end, start) ==
  JsGe(JsSub(At(times, end), At(times, start)), JsSub(windowSeconds, Whole(1)))

\* the end of an iteration of rollingAverage, w the window after the while loop
rollingEmit(times, windowSeconds, st, w) ==
  [end |-> st.end + 1, start |-> w.start, sum |-> w.sum,
   results |-> IF windowReached(times, windowSeconds, st.end, w.start)
                 THEN Append(st.results,
                             [start |-> w.start, end |-> st.end,
                              average |-> JsDiv(w.sum, Whole(st.end - w.start + 1))])
                 ELSE st.results]

\* one iteration of the for loop of rollingAverage
rollingStep(values, times, windowSeconds, st) ==
  rollingEmit(times, windowSeconds, st,
              shrinkWindow(values, times, windowSeconds, st.end,
                           [start |-> st.start, sum |-> JsAdd(st.sum, At(values, st.end)),
                            count |-> st.end - st.start + 1]))

RECURSIVE rollingLoop(_, _, _, _)
rollingLoop(values, times, windowSeconds, st) ==
  IF st.end >= Len(values) THEN st.results
  ELSE rollingLoop(values, times, windowSeconds,
                   rollingStep(values, times, windowSeconds, st))

rollingAverage(values, times, windowSeconds) ==
  IF Len(values) = 0 THEN <<>>
  ELSE rollingLoop(values, times, windowSeconds,
                   [end |-> 0, start |-> 0, sum |-> Whole(0), results |-> <<>>])

\* the new value as a percentage of the old one
percentageOf(oldValue, newValue) ==
  IF IsNullish(oldValue) \/ IsNullish(newValue) \/ IsZero(oldValue) THEN Null
  ELSE JsMul(JsDiv(newValue, oldValue), Whole(100))

percentageChange(oldValue, newValue) ==
  IF IsNullish(oldValue) \/ IsNullish(newValue) \/ IsZero(oldValue) THEN Null
  ELSE JsMul(JsDiv(JsSub(newValue, oldValue), oldValue), Whole(100))

\* the average squared where it is to be raised to the fourth power
Pow2(x) == JsMul(x, x)

\* x ** 4
Pow4(x) == JsMul(JsMul(x, x), JsMul(x, x))

\* the largest r >= 0 with r^4 <= m, for an integer m >= 0
IntRoot4(m) ==
  CHOOSE r \in 0..214 :
    /\ r * r * r * r <= m
    /\ r = 214 \/ (r + 1) * (r + 1) * (r + 1) * (r + 1) > m

\* m is the fourth power of an integer in 0..214
IsPow4(m) == IntRoot4(m) * IntRoot4(m) * IntRoot4(m) * IntRoot4(m) = m

\* the fourth root of n/d when it is not a rational number: its radicand is
\* kept, and the value is compared through its fourth power
Root4(n, d) == [k |-> "root4", n |-> n, d |-> d]

\* x ** 0.25 for a rational x in lowest terms
FourthRoot(x) ==
  IF x.k # "num" THEN (IF x.k = "inf" THEN PosInf ELSE NaN)
  ELSE IF x.n < 0 THEN NaN
  ELSE IF IsPow4(x.n) /\ IsPow4(x.d) THEN Rat(IntRoot4(x.n), IntRoot4(x.d))
  ELSE Root4(x.n, x.d)

RECURSIVE SumPow4(_, _)
\* rolling.reduce((acc, item) => acc + item.average ** 4, 0)
SumPow4(rolling, st) ==
  IF st.i > Len(rolling) THEN st.acc
  ELSE SumPow4(rolling, [i |-> st.i + 1,
                         acc |-> JsAdd(st.acc, Pow4(rolling[st.i].average))])

\* normalizedPower once the 30-second rolling averages are known
rollingPower(rolling) ==
  IF Len(rolling) = 0 THEN Null
  ELSE FourthRoot(ToNumber(JsDiv(SumPow4(rolling, [i |-> 1, acc |-> Whole(0)]),
                                 Whole(Len(rolling)))))

normalizedPower(values, times) ==
  IF Len(values) < 30 THEN Null
  ELSE rollingPower(rollingAverage(values, rebaseTime(times), Whole(30)))

\* the body of the loop of linearRegressionSlope, dy = ys[i] - meanY
regressionStep(dx, dy, st) ==
  [i |-> st.i + 1,
   numerator |-> JsAdd(st.numerator, JsMul(dx, dy)),
   denominator |-> JsAdd(st.denominator, JsMul(dx, dx))]

RECURSIVE regressionSums(_, _, _, _, _)
\* the loop of linearRegressionSlope: numerator and denominator
regressionSums(xs, ys, meanX, meanY, st) ==
  IF st.i > Len(xs) THEN st
  ELSE regressionSums(xs, ys, meanX, meanY,
                      regressionStep(JsSub(xs[st.i], meanX), JsSub(ys[st.i], meanY), st))

\* the statements after the loop of linearRegressionSlope
slopeOf(r) == IF IsZero(r.denominator) THEN Null ELSE JsDiv(r.numerator, r.denominator)

linearRegressionSlope(xs, ys) ==
  IF Len(xs) # Len(ys) \/ Len(xs) < 2 THEN Null
  ELSE slopeOf(regressionSums(xs, ys,
                              JsDiv(Sum(xs), Whole(Len(xs))),
                              JsDiv(Sum(ys), Whole(Len(ys))),
                              [i |-> 1, numerator |-> Whole(0), denominator |-> Whole(0)]))

\* times.findIndex((value) => value >= startTime), 0-based, -1 when there is none
findIndexFrom(times, startTime) ==
  IF \E i \in 1..Len(times) : JsGe(times[i], startTime)
    THEN (CHOOSE i \in 1..Len(times) :
            /\ JsGe(times[i], startTime)
            /\ \A j \in 1..(i - 1) : ~JsGe(times[j], startTime)) - 1
    ELSE -1

\* the smaller of best and average is kept
smallerOf(best, average) ==
  IF ~IsNullish(average) /\ (IsNullish(best) \/ JsLt(average, best)) THEN average ELSE best

\* if (average != null && (best == null || average > best)) best = average
betterOf(best, average) ==
  IF ~IsNullish(average) /\ (IsNullish(best) \/ JsGt(average, best)) THEN average ELSE best

\* the end of an iteration of computeBestAveragePower, w the window after the while loop
bestEmit(times, windowSeconds, st, w) ==
  [end |-> st.end + 1, start |-> w.start, sum |-> w.sum, count |-> w.count,
   best |-> IF windowReached(times, windowSeconds, st.end, w.start)
              THEN betterOf(st.best,
                            IF w.count > 0 THEN JsDiv(w.sum, Whole(w.count)) ELSE Null)
              ELSE st.best]

\* one iteration of the for loop of computeBestAveragePower
bestStep(values, times, windowSeconds, st) ==
  bestEmit(times, windowSeconds, st,
           shrinkWindow(values, times, windowSeconds, st.end,
                        [start |-> st.start, sum |-> JsAdd(st.sum, At(values, st.end)),
                         count |-> st.count + 1]))

RECURSIVE bestLoop(_, _, _, _)
bestLoop(values, times, windowSeconds, st) ==
  IF st.end >= Len(values) THEN st.best
  ELSE bestLoop(values, times, windowSeconds, bestStep(values, times, windowSeconds, st))

\* the loop of computeBestAveragePower from the first index at or after startTime
bestFrom(values, times, windowSeconds, startIndex) ==
  IF startIndex = -1 THEN Null
  ELSE bestLoop(values, times, windowSeconds,
                [end |-> startIndex, start |-> startIndex, sum |-> Whole(0),
                 count |-> 0, best |-> Null])

computeBestAveragePower(values, times, windowSeconds, startTime) ==
  IF Len(values) < 2 THEN Null
  ELSE bestFrom(values, times, windowSeconds, findIndexFrom(times, startTime))

(***************************************************************************)
(* Zone Classifier                                                         *)
(***************************************************************************)
\* a conversion that scales the ratio by 1000
ratioToPermille(value) == IF IsNullish(value) THEN Null ELSE JsMul(value, Whole(1000))

ratioToPercent(value) == IF IsNullish(value) THEN Null ELSE JsMul(value, Whole(100))

\* the body of the loops of computeTimeInRange (on values[i]) and of
\* computeHrrTimeInRange (on hrr): total += duration; if in range, seconds += duration
zoneStep(value, duration, min, max, st) ==
  [i |-> st.i + 1,
   seconds |-> IF JsGe(value, min) /\ JsLe(value, max) THEN JsAdd(st.seconds, duration)
               ELSE st.seconds,
   total |-> JsAdd(st.total, duration)]

RECURSIVE rangeLoopToEnd(_, _, _, _, _)
\* a loop over i = 0 .. values.length - 1, the last sample included
rangeLoopToEnd(times, values, min, max, st) ==
  IF st.i >= Len(values) THEN st
  ELSE rangeLoopToEnd(times, values, min, max,
                      zoneStep(At(values, st.i), JsSub(At(times, st.i + 1), At(times, st.i)),
                               min, max, st))

RECURSIVE rangeLoop(_, _, _, _, _)
\* the loop of computeTimeInRange over i = 0 .. values.length - 2
rangeLoop(times, values, min, max, st) ==
  IF st.i >= Len(values) - 1 THEN st
  ELSE rangeLoop(times, values, min, max,
                 zoneStep(At(values, st.i), JsSub(At(times, st.i + 1), At(times, st.i)),
                          min, max, st))

\* const ratio = total ? seconds / total : 0; return { seconds, ratio }
ratioOf(r) ==
  [seconds |-> r.seconds,
   ratio |-> IF Truthy(r.total) THEN JsDiv(r.seconds, r.total) ELSE Whole(0)]

computeTimeInRange(times, values, min, max) ==
  IF Len(values) = 0 THEN [seconds |-> Whole(0), ratio |-> Whole(0)]
  ELSE ratioOf(rangeLoop(times, values, min, max,
                         [i |-> 0, seconds |-> Whole(0), total |-> Whole(0)]))

\* ((values[i] - heartRateRest) / reserve) * 100
hrrOf(value, heartRateRest, reserve) ==
  JsMul(JsDiv(JsSub(value, heartRateRest), reserve), Whole(100))

RECURSIVE hrrLoop(_, _, _, _, _, _, _)
\* the loop of computeHrrTimeInRange over i = 0 .. values.length - 2
hrrLoop(times, values, heartRateRest, reserve, minPercent, maxPercent, st) ==
  IF st.i >= Len(values) - 1 THEN st
  ELSE hrrLoop(times, values, heartRateRest, reserve, minPercent, maxPercent,
               zoneStep(hrrOf(At(values, st.i), heartRateRest, reserve),
                        JsSub(At(times, st.i + 1), At(times, st.i)),
                        minPercent, maxPercent, st))

\* computeHrrTimeInRange once the reserve is known
hrrTimeInRange(times, values, heartRateRest, reserve, minPercent, maxPercent) ==
  IF JsLe(reserve, Whole(0)) THEN computeTimeInRange(times, values, Whole(0), Whole(0))
  ELSE ratioOf(hrrLoop(times, values, heartRateRest, reserve, minPercent, maxPercent,
                       [i |-> 0, seconds |-> Whole(0), total |-> Whole(0)]))

computeHrrTimeInRange(times, values, heartRateRest, heartRateMax, minPercent, maxPercent) ==
  IF Len(values) = 0 THEN [seconds |-> Whole(0), ratio |-> Whole(0)]
  ELSE hrrTimeInRange(times, values, heartRateRest, JsSub(heartRateMax, heartRateRest),
                      minPercent, maxPercent)

\* hrs.map((value, idx) => ({ hr: value, power: powers[idx] }))
pairsOf(hrs, powers) == [i \in 1..Len(hrs) |-> [hr |-> hrs[i], power |-> At(powers, i - 1)]]

\* .map((pair) => pair.power)
powersOf(pairs) == [i \in 1..Len(pairs) |-> pairs[i].power]

\* pairs.filter((pair) => pair.hr >= min && pair.hr <= max)
pairsInRange(pairs, min, max) ==
  SelectSeq(pairs, LAMBDA pair : JsGe(pair.hr, min) /\ JsLe(pair.hr, max))

\* the powers of the pairs kept by filterByRange
filterByRange(hrs, powers, center, tolerance) ==
  powersOf(pairsInRange(pairsOf(hrs, powers),
                        JsSub(center, tolerance), JsAdd(center, tolerance)))

(***************************************************************************)
(* Metrics engine                                                          *)
(***************************************************************************)
\* rolling.reduce((acc, item) => (item.average > acc ? item.average : acc), 0)
RECURSIVE bestRolling(_, _)
bestRolling(rolling, st) ==
  IF st.i > Len(rolling) THEN st.acc
  ELSE bestRolling(rolling,
         [i |-> st.i + 1,
          acc |-> IF JsGt(rolling[st.i].average, st.acc) THEN rolling[st.i].average
                  ELSE st.acc])

\* mean(watts) / Math.max(mean(hr) ?? 1, 1)
powerPerBeat(watts, hr) ==
  JsDiv(mean(watts), MathMax(Coalesce(mean(hr), Whole(1)), Whole(1)))

\* the best 5-minute rolling average of a half
bestRollingOf(watts, time) ==
  bestRolling(rollingAverage(watts, time, Whole(300)), [i |-> 1, acc |-> Whole(0)])

\* the mean power of the samples of a half within 150 +/- 2.5 bpm
powerAtHr(hr, watts) == mean(filterByRange(hr, watts, Whole(150), Rat(5, 2)))

\* early != null && late != null ? late - early : null
changeOf(early, late) ==
  IF ~IsNullish(early) /\ ~IsNullish(late) THEN JsSub(late, early) ELSE Null

\* the comparisons of firstHalf with secondHalf
halfMetrics(earlyWatts, earlyHr, earlyTime, lateWatts, lateHr, lateTime) ==
  [pwHrDrift |-> percentageChange(powerPerBeat(earlyWatts, earlyHr),
                                  powerPerBeat(lateWatts, lateHr)),
   rolling5Diff |-> JsSub(bestRollingOf(lateWatts, lateTime),
                          bestRollingOf(earlyWatts, earlyTime)),
   power150Delta |-> changeOf(powerAtHr(earlyHr, earlyWatts), powerAtHr(lateHr, lateWatts)),
   hrCreep |-> changeOf(mean(earlyHr), mean(lateHr))]

\* the object returned for one quartile
summaryOf(avgPower, np, avgHr) ==
  [avgPower |-> avgPower,
   normalizedPower |-> np,
   avgHr |-> avgHr,
   efficiencyFactor |->
     IF Truthy(avgHr) THEN JsDiv(Coalesce(np, Coalesce(avgPower, Whole(0))), avgHr)
     ELSE Null]

quartileSummary(s, segment) ==
  summaryOf(mean(sliceSegment(s.watts, segment)),
            normalizedPower(sliceSegment(s.watts, segment),
                            rebaseTime(sliceSegment(s.time, segment))),
            mean(sliceSegment(s.heartrate, segment)))

\* the gain of quartile 4 over quartile 1 instead of the fade
powerGainOf(q1, q4) ==
  IF ~IsNullish(q1.avgPower) /\ ~IsNullish(q4.avgPower)
    THEN JsMul(JsDiv(JsSub(q4.avgPower, q1.avgPower), q1.avgPower), Whole(100))
    ELSE Null

\* powerFade of calculateMetrics
powerFadeOf(q1, q4) ==
  IF ~IsNullish(q1.avgPower) /\ ~IsNullish(q4.avgPower)
    THEN JsMul(JsDiv(JsSub(q1.avgPower, q4.avgPower), q1.avgPower), Whole(100))
    ELSE Null

\* efficiencyDecline of calculateMetrics
efficiencyDeclineOf(efficiencyEarly, efficiencyLate) ==
  IF ~IsNullish(efficiencyEarly) /\ ~IsNullish(efficiencyLate) /\ ~IsZero(efficiencyEarly)
    THEN JsMul(JsDiv(JsSub(efficiencyEarly, efficiencyLate), efficiencyEarly), Whole(100))
    ELSE Null

\* powerFade, efficiencyEarly, efficiencyLate and efficiencyDecline
fadeRecord(powerFade, efficiencyEarly, efficiencyLate) ==
  [powerFade |-> powerFade,
   efficiencyEarly |-> efficiencyEarly,
   efficiencyLate |-> efficiencyLate,
   efficiencyDecline |-> efficiencyDeclineOf(efficiencyEarly, efficiencyLate)]

fadeOf(quartileSummaries) ==
  fadeRecord(powerFadeOf(quartileSummaries[1], quartileSummaries[4]),
             Coalesce(quartileSummaries[1].efficiencyFactor, Null),
             Coalesce(quartileSummaries[4].efficiencyFactor, Null))

\* the samples the watts-per-heartbeat loop looks at: hr, power and time of index i
samplesOf(s) ==
  [j \in 1..Len(s.watts) |->
     [hr |-> At(s.heartrate, j - 1), power |-> s.watts[j], time |-> At(s.time, j - 1)]]

\* wattsPerBeat.push(power / hr); ratioTimes.push(time[i])
ratiosOf(kept) ==
  [j \in 1..Len(kept) |-> [ratio |-> JsDiv(kept[j].power, kept[j].hr), time |-> kept[j].time]]

\* the samples {ratio, time} pushed by the watts-per-heartbeat loop, in index order
ratioPairs(s) ==
  ratiosOf(SelectSeq(samplesOf(s), LAMBDA p : /\ Truthy(p.hr)
                                              /\ JsGt(p.hr, Whole(0))
                                              /\ ~IsNullish(p.power)))

\* slopePerSecond != null ? slopePerSecond * 3600 : null
slopePerHourOf(slopePerSecond) ==
  IF ~IsNullish(slopePerSecond) THEN JsMul(slopePerSecond, Whole(3600)) ELSE Null

\* the wattsPerBeatTrend object
trendRecord(wattsPerBeat, slopePerHour, meanRatio) ==
  [slopePerHour |-> slopePerHour,
   slopePercentPerHour |->
     IF ~IsNullish(slopePerHour) /\ Truthy(meanRatio)
       THEN JsMul(JsDiv(slopePerHour, meanRatio), Whole(100))
       ELSE Null,
   start |-> Coalesce(At(wattsPerBeat, 0), Null),
   end |-> Coalesce(At(wattsPerBeat, Len(wattsPerBeat) - 1), Null),
   mean |-> meanRatio]

trendOf(wattsPerBeat, ratioTimes) ==
  trendRecord(wattsPerBeat,
              slopePerHourOf(linearRegressionSlope(rebaseTime(ratioTimes), wattsPerBeat)),
              IF Len(wattsPerBeat) > 0 THEN mean(wattsPerBeat) ELSE Null)

trendOfPairs(pairs) ==
  trendOf([i \in 1..Len(pairs) |-> pairs[i].ratio], [i \in 1..Len(pairs) |-> pairs[i].time])

wattsPerBeatTrend(s) == trendOfPairs(ratioPairs(s))

offsets == <<0, 3600, 7200, 10800>>

durations == <<300, 600, 1200, 3600>>

\* the best power of each duration at one offset, null when the ride is too short
bestsAt(s, totalDuration, offset) ==
  [j \in 1..Len(durations) |->
     [duration |-> durations[j],
      best |-> IF JsLt(totalDuration, Whole(offset + durations[j])) THEN Null
               ELSE computeBestAveragePower(s.watts, s.time, Whole(durations[j]),
                                            Whole(offset))]]

\* durations.reduce(...): the {duration, best} entries of one offset, in key order
bestByDurationAt(s, totalDuration, offset) ==
  SelectSeq(bestsAt(s, totalDuration, offset), LAMBDA entry : ~IsNullish(entry.best))

\* .map((offset) => ({ offset, bestByDuration }))
entriesAt(s, totalDuration, reached) ==
  [k \in 1..Len(reached) |->
     [offset |-> reached[k],
      bestByDuration |-> bestByDurationAt(s, totalDuration, reached[k])]]

\* a builder that keeps every offset, whatever the total duration
fatigueEntriesUnfiltered(s, totalDuration) == entriesAt(s, totalDuration, offsets)

fatigueEntries(s, totalDuration) ==
  SelectSeq(entriesAt(s, totalDuration,
                      SelectSeq(offsets,
                                LAMBDA offset : JsGe(totalDuration, Whole(offset + 300)))),
            LAMBDA entry : Len(entry.bestByDuration) > 0)

fatigueResistanceOf(s) ==
  fatigueEntries(s, Coalesce(At(s.time, Len(s.time) - 1), Whole(0)))

\* a component that subtracts the penalty without clamping it
scoreComponentUnclamped(penalty) == JsSub(Whole(100), penalty)

\* 100 - clamp(penalty, 0, 100)
scoreComponent(penalty) == JsSub(Whole(100), clamp(penalty, Whole(0), Whole(100)))

durabilityScoreComponents(powerFade, pwHrDrift, efficiencyDecline, slopePercentPerHour) ==
  (IF ~IsNullish(powerFade)
     THEN <<scoreComponent(MathMax(powerFade, Whole(0)))>> ELSE <<>>)
  \o (IF ~IsNullish(pwHrDrift)
        THEN <<scoreComponent(MathMax(pwHrDrift, Whole(0)))>> ELSE <<>>)
  \o (IF ~IsNullish(efficiencyDecline)
        THEN <<scoreComponent(MathMax(efficiencyDecline, Whole(0)))>> ELSE <<>>)
  \o (IF ~IsNullish(slopePercentPerHour)
        THEN <<scoreComponent(MathMax(JsNeg(slopePercentPerHour), Whole(0)))>> ELSE <<>>)

durabilityScoreOf(components) ==
  IF Len(components) > 0
    THEN MathMax(Whole(0),
                 MathMin(Whole(100), JsDiv(Sum(components), Whole(Len(components)))))
    ELSE Null

\* calculateMetrics needs at least MinSamples entries of time, watts and heartrate
MinSamples == 10

\* the zone calculator selected by the options
z2Calculator(opts, times, hr) ==
  IF Truthy(opts.heartRateMax) /\ Truthy(opts.heartRateRest)
    THEN computeHrrTimeInRange(times, hr, opts.heartRateRest, opts.heartRateMax,
                               Whole(60), Whole(70))
    ELSE computeTimeInRange(times, hr, Whole(120), Whole(150))

\* ratioToPercent(z2Calculator(rebased time of the segment, heartrate of the segment).ratio)
z2Share(s, opts, segment) ==
  ratioToPercent(z2Calculator(opts, rebaseTime(sliceSegment(s.time, segment)),
                              sliceSegment(s.heartrate, segment)).ratio)

\* the return statement of calculateMetrics
metricsRecord(s, opts, segs, halves, quartileSummaries, fade, trend) ==
  [segments |-> segs,
   pwHrDrift |-> halves.pwHrDrift,
   rolling5Diff |-> halves.rolling5Diff,
   power150Delta |-> halves.power150Delta,
   z2Early |-> z2Share(s, opts, segs.early),
   z2Late |-> z2Share(s, opts, segs.late),
   cadenceDrop |-> changeOf(mean(sliceSegment(s.cadence, segs.early)),
                            mean(sliceSegment(s.cadence, segs.late))),
   hrCreep |-> halves.hrCreep,
   quartiles |-> quartileSummaries,
   powerFade |-> fade.powerFade,
   efficiencyDecline |-> fade.efficiencyDecline,
   wattsPerBeatTrend |-> trend,
   fatigueResistance |-> fatigueResistanceOf(s),
   durabilityScore |->
     durabilityScoreOf(durabilityScoreComponents(fade.powerFade, halves.pwHrDrift,
                                                 fade.efficiencyDecline,
                                                 trend.slopePercentPerHour)),
   efficiencyFactor |-> [early |-> fade.efficiencyEarly, late |-> fade.efficiencyLate]]

\* calculateMetrics once the quartile summaries are known
metricsOfQuartiles(s, opts, segs, quartileSummaries) ==
  metricsRecord(s, opts, segs,
                halfMetrics(sliceSegment(s.watts, segs.firstHalf),
                            sliceSegment(s.heartrate, segs.firstHalf),
                            rebaseTime(sliceSegment(s.time, segs.firstHalf)),
                            sliceSegment(s.watts, segs.secondHalf),
                            sliceSegment(s.heartrate, segs.secondHalf),
                            rebaseTime(sliceSegment(s.time, segs.secondHalf))),
                quartileSummaries, fadeOf(quartileSummaries), wattsPerBeatTrend(s))

\* calculateMetrics after the guard, segs the result of computeSegments
metricsOfPlan(s, opts, segs) ==
  IF segs.isNull THEN [error |-> "Unable to split segments"]
  ELSE metricsOfQuartiles(s, opts, segs,
                          [k \in 1..4 |-> quartileSummary(s, segs.quartiles[k])])

\* a guard that looks at the time channel only
insufficientTime(s) == Len(s.time) < MinSamples

\* the top-level guard of calculateMetrics
insufficientData(s) ==
  Len(s.time) < MinSamples \/ Len(s.watts) < MinSamples \/ Len(s.heartrate) < MinSamples

calculateMetrics(s, opts) ==
  IF insufficientData(s) THEN [error |-> "Insufficient data"]
  ELSE metricsOfPlan(s, opts, computeSegments(s))

(***************************************************************************)
(* Baseline Aggregator.  A history is the value passed as metricsHistory:  *)
(* missing (null or undefined) or a sequence of rows of athlete_metrics.   *)
(* A field of a row is null, undefined (no such column), a number, or a    *)
(* string: the database driver returns a NUMERIC column as text.           *)
(***************************************************************************)
\* a numeric string: the text of the rational n/d
NumStr(n, d) == [k |-> "numstr", n |-> n, d |-> d]

\* Number(value): a numeric string converts to its number, any other string to NaN
NumberOf(value) == IF value.k = "numstr" THEN Rat(value.n, value.d) ELSE ToNumber(value)

\* an update that replaces the total instead of adding to it
updateKeepingLast(slot, value) ==
  IF IsNullish(value) THEN slot
  ELSE [total |-> NumberOf(value), count |-> slot.count + 1]

\* update(key, value) on the {total, count} of the key
update(slot, value) ==
  IF IsNullish(value) THEN slot
  ELSE [total |-> JsAdd(slot.total, NumberOf(value)), count |-> slot.count + 1]

\* the reducer callback: the seven updates of one row
aggregateRow(acc, row) ==
  [pwHrDrift |-> update(acc.pwHrDrift, row.pw_hr_drift),
   rolling5Diff |-> update(acc.rolling5Diff, row.rolling5_diff),
   power150Delta |-> update(acc.power150Delta, row.power_150_delta),
   z2Early |-> update(acc.z2Early, row.z2_early),
   z2Late |-> update(acc.z2Late, row.z2_late),
   cadenceDrop |-> update(acc.cadenceDrop, row.cadence_drop),
   hrCreep |-> update(acc.hrCreep, row.hr_creep)]

\* the initial value of the reduce
EmptyAggregate ==
  [pwHrDrift |-> [total |-> Whole(0), count |-> 0],
   rolling5Diff |-> [total |-> Whole(0), count |-> 0],
   power150Delta |-> [total |-> Whole(0), count |-> 0],
   z2Early |-> [total |-> Whole(0), count |-> 0],
   z2Late |-> [total |-> Whole(0), count |-> 0],
   cadenceDrop |-> [total |-> Whole(0), count |-> 0],
   hrCreep |-> [total |-> Whole(0), count |-> 0]]

RECURSIVE aggregateLoop(_, _)
\* metricsHistory.reduce(...): st is the loop state
aggregateLoop(rows, st) ==
  IF st.i > Len(rows) THEN st.acc
  ELSE aggregateLoop(rows, [i |-> st.i + 1, acc |-> aggregateRow(st.acc, rows[st.i])])

\* an average without the count > 0 test
averageUnguarded(slot) == JsDiv(slot.total, Whole(slot.count))

\* average(key) on the {total, count} of the key
average(slot) == IF slot.count > 0 THEN JsDiv(slot.total, Whole(slot.count)) ELSE Null

\* the value returned for a missing or empty history: null
NoBaseline ==
  [isNull |-> TRUE, pwHrDrift |-> Null, rolling5Diff |-> Null, power150Delta |-> Null,
   z2Early |-> Null, z2Late |-> Null, cadenceDrop |-> Null, hrCreep |-> Null]

\* the object returned by computeDurabilityBaseline
baselineOf(aggregate) ==
  [isNull |-> FALSE,
   pwHrDrift |-> average(aggregate.pwHrDrift),
   rolling5Diff |-> average(aggregate.rolling5Diff),
   power150Delta |-> average(aggregate.power150Delta),
   z2Early |-> average(aggregate.z2Early),
   z2Late |-> average(aggregate.z2Late),
   cadenceDrop |-> average(aggregate.cadenceDrop),
   hrCreep |-> average(aggregate.hrCreep)]

computeDurabilityBaseline(metricsHistory) ==
  IF metricsHistory.missing \/ Len(metricsHistory.rows) = 0 THEN NoBaseline
  ELSE baselineOf(aggregateLoop(metricsHistory.rows, [i |-> 1, acc |-> EmptyAggregate]))

(***************************************************************************)
(* Raw input of the sanitizer.  A channel of the raw streams object is     *)
(* absent, present without a data property, present with data null,        *)
(* present with an array, or present with a value that is no array.        *)
(***************************************************************************)
Channels == {"time", "watts", "heartrate", "distance", "altitude", "velocity_smooth", "cadence"}

Shapes == {"absent", "nodata", "nulldata", "seq", "scalar"}

\* streams.X?.data: undefined for an absent channel or a missing property
ChannelData(ch) ==
  CASE ch.shape \in {"absent", "nodata"} -> "undefined"
    [] ch.shape = "nulldata" -> "null"
    [] ch.shape = "seq" -> "array"
    [] OTHER -> "other"

\* streams.X?.data ?? []: the value itself unless it is null or undefined
passThrough(ch) == IF ChannelData(ch) = "array" THEN ch.data ELSE <<>>

\* streams.X?.data?.map(f) ?? []: calling map on a value that is no array raises
mapRaises(ch) == ChannelData(ch) = "other"

\* streams.X?.data?.map((value) => clamp(value, min, max)) ?? []
mapClamped(ch, min, max) ==
  IF ChannelData(ch) = "array"
    THEN [i \in 1..Len(ch.data) |-> clamp(ch.data[i], min, max)]
    ELSE <<>>

\* the channels returned as the raw value that is no array
passedScalars(r) ==
  {c \in Channels \ {"watts", "heartrate"} : ChannelData(r[c]) = "other"}

sanitizeStreams(r) ==
  [raised |-> mapRaises(r.watts) \/ mapRaises(r.heartrate),
   value |-> [time |-> passThrough(r.time),
              watts |-> mapClamped(r.watts, Whole(0), Whole(2000)),
              heartrate |-> mapClamped(r.heartrate, Whole(40), Whole(220)),
              distance |-> passThrough(r.distance),
              altitude |-> passThrough(r.altitude),
              velocity |-> passThrough(r.velocity_smooth),
              cadence |-> passThrough(r.cadence),
              scalars |-> passedScalars(r)]]

(***************************************************************************)
(* State machine.  pc is the position of one invocation of the pipeline    *)
(* of processActivity: "raw" (streams fetched), "sanitized", "planned"     *)
(* (computeSegments returned), "done" (calculateMetrics returned),         *)
(* "raised" (an exception left the function), "history" (rows loaded),     *)
(* "baselined" (computeDurabilityBaseline returned).  A function called on *)
(* its own takes its arguments from args and leaves its value in result.   *)
(* calls holds the invocations that run interleaved, each with its own     *)
(* position, arguments and results.                                        *)
(***************************************************************************)
EmptyStreams ==
  [time |-> <<>>, watts |-> <<>>, heartrate |-> <<>>, distance |-> <<>>,
   altitude |-> <<>>, velocity |-> <<>>, cadence |-> <<>>, scalars |-> {}]

NoRaw == [c \in Channels |-> [shape |-> "absent", data |-> <<>>]]

NoOptions == [heartRateMax |-> Undef, heartRateRest |-> Undef]

NoMetrics == [error |-> "none"]

\* no history loaded: the value of a missing metricsHistory
NoHistory == [missing |-> TRUE, rows |-> <<>>]

\* no function of the engine called on its own: no arguments, no result
NoArgs == <<>>

NoResult == <<>>

\* no invocation of the pipeline other than the one of pc
NoCalls == <<>>

\* no database is configured
NoDb == [pool |-> FALSE, processed |-> FALSE, rows |-> 0]

\* no request has reached Strava
NoNet == [updates |-> 0]

\* the rate limiter of src/lib/rateLimiter.js is not loaded
NoBuckets == <<>>

\* the database, Strava, the clock and the rate limiter take no part
NoService == db = NoDb /\ net = NoNet /\ clock = 0 /\ buckets = NoBuckets

\* ---- inputs of the Segment Planner -------------------------------------
MaxSegLen == 5

StepVals == {0, 1, 2, 5}

StartVals == {0, 3}

RECURSIVE TimesFrom(_, _, _)
\* the timestamps start, start + steps[1], ... as values
TimesFrom(start, steps, i) ==
  IF i > Len(steps) THEN <<Whole(start)>>
  ELSE <<Whole(start)>> \o TimesFrom(start + steps[i], steps, i + 1)

TimeSeqs ==
  {<<>>} \cup UNION {{TimesFrom(s, st, 1) : st \in [1..m -> StepVals], s \in StartVals} :
                      m \in 0..(MaxSegLen - 1)}

InitSeg ==
  /\ pc = "sanitized"
  /\ raw = NoRaw
  /\ \E t \in TimeSeqs : streams = [EmptyStreams EXCEPT !.time = t]
  /\ options = NoOptions
  /\ segments = NoPlan
  /\ metrics = NoMetrics
  /\ history = NoHistory
  /\ baseline = NoBaseline
  /\ args = NoArgs
  /\ result = NoResult
  /\ calls = NoCalls
  /\ NoService

ComputeSegments ==
  /\ pc = "sanitized"
  /\ segments' = computeSegments(streams)
  /\ pc' = "planned"
  /\ UNCHANGED <<raw, streams, options, metrics, history, baseline, args, result, calls,
               db, net, clock, buckets>>

NextSeg == ComputeSegments

SpecSeg == InitSeg /\ [][NextSeg]_vars

\* ---- inputs of the Stream Sanitizer -------------------------------------
MaxRawLen == 2

RawVals ==
  {Null, Undef, NaN, Str, Whole(-5), Whole(0), Whole(30), Whole(100), Whole(230),
   Whole(2500), Rat(1, 2)}

RawSeqs == UNION {[1..m -> RawVals] : m \in 0..MaxRawLen}

DefaultData == <<Whole(0), Whole(60)>>

ShapedChannel(shape) ==
  [shape |-> shape, data |-> IF shape = "seq" THEN DefaultData ELSE <<>>]

\* every channel in any of the five shapes
RawShapes == [Channels -> {ShapedChannel(sh) : sh \in Shapes}]

\* all channels arrays, one of watts and heartrate with arbitrary entries
RawValues ==
  {[[c \in Channels |-> ShapedChannel("seq")] EXCEPT ![ch] = [shape |-> "seq", data |-> q]] :
     ch \in {"watts", "heartrate"}, q \in RawSeqs}

InitSan ==
  /\ pc = "raw"
  /\ raw \in RawShapes \cup RawValues
  /\ streams = EmptyStreams
  /\ options = NoOptions
  /\ segments = NoPlan
  /\ metrics = NoMetrics
  /\ history = NoHistory
  /\ baseline = NoBaseline
  /\ args = NoArgs
  /\ result = NoResult
  /\ calls = NoCalls
  /\ NoService

SanitizeStreams ==
  /\ pc = "raw"
  /\ LET r == sanitizeStreams(raw)
     IN IF r.raised
          THEN pc' = "raised" /\ streams' = streams
          ELSE pc' = "sanitized" /\ streams' = r.value
  /\ UNCHANGED <<raw, options, segments, metrics, history, baseline, args, result, calls,
               db, net, clock, buckets>>

NextSan == SanitizeStreams

SpecSan == InitSan /\ [][NextSan]_vars

\* ---- inputs of the pipeline sanitizeStreams -> calculateMetrics ---------
MaxLen == 11

\* raw power and heart-rate entries: null, below the clamp range, inside it
RawWatts == {Null, Whole(-5), Whole(240)}

RawHeartrate == {Null, Whole(30), Whole(120)}

\* the index after which a channel changes its value
SplitVals == {4, 6}

\* <<sampling step, shift of the last sample off the sampling grid>> in seconds:
\* one sample per second, one per minute, a recording gap of 500 s before the
\* last sample, and a ride of over an hour sampled every 400 s
Pacing == {<<1, 0>>, <<60, 0>>, <<1, 500>>, <<400, -100>>}

\* n entries: a up to index split, b after it
TwoLevel(n, a, b, split) == [i \in 1..n |-> IF i <= split THEN a ELSE b]

\* n timestamps from 0 at a fixed step, the last one shifted by gap
Timeline(n, step, gap) ==
  [i \in 1..n |-> Whole(step * (i - 1) + (IF i = n THEN gap ELSE 0))]

\* the lengths of time, watts and heartrate: at most one channel is shorter than MaxLen
LenTriples ==
  LET Lens == (MinSamples - 1)..MaxLen
  IN {t \in Lens \X Lens \X Lens : Cardinality({i \in 1..3 : t[i] # MaxLen}) <= 1}

\* max_heartrate / resting_heartrate of the activity: missing, a positive reserve, no reserve
OptionVals ==
  {NoOptions,
   [heartRateMax |-> Whole(150), heartRateRest |-> Whole(50)],
   [heartRateMax |-> Whole(100), heartRateRest |-> Whole(100)]}

SeqChannel(data) == [shape |-> "seq", data |-> data]

RawStreams ==
  {[time |-> SeqChannel(Timeline(len[1], pace[1], pace[2])),
    watts |-> SeqChannel(TwoLevel(len[2], w[1], w[2], split)),
    heartrate |-> SeqChannel(TwoLevel(len[3], h[1], h[2], split)),
    distance |-> SeqChannel(<<>>),
    altitude |-> SeqChannel(<<>>),
    velocity_smooth |-> SeqChannel(<<>>),
    cadence |-> SeqChannel(TwoLevel(len[1], Whole(90), Whole(80), split))] :
     len \in LenTriples, pace \in Pacing,
     w \in RawWatts \X RawWatts, h \in RawHeartrate \X RawHeartrate, split \in SplitVals}

\* the power lost per sample <<up to the split, after it>>: a linear ramp, one
\* steep at first, one steep at the end
Slopes == {<<40, 40>>, <<80, 40>>, <<40, 80>>}

\* n strictly decreasing powers that end at 40 W
Ramp(n, early, late, split) ==
  [i \in 1..n |->
     Whole(40 + late * (n - (IF i > split THEN i ELSE split))
              + early * (IF i < split THEN split - i ELSE 0))]

\* <<pacing, slopes>>: a linear ramp at every pacing, the other ramps on
\* evenly sampled rides
RampPlans == {ps \in Pacing \X Slopes : ps[2][1] = ps[2][2] \/ ps[1][2] = 0}

\* rides of MaxLen samples with fading power at a constant heart rate
RampStreams ==
  {[time |-> SeqChannel(Timeline(MaxLen, plan[1][1], plan[1][2])),
    watts |-> SeqChannel(Ramp(MaxLen, plan[2][1], plan[2][2], split)),
    heartrate |-> SeqChannel(TwoLevel(MaxLen, h, h, split)),
    distance |-> SeqChannel(<<>>),
    altitude |-> SeqChannel(<<>>),
    velocity_smooth |-> SeqChannel(<<>>),
    cadence |-> SeqChannel(TwoLevel(MaxLen, Whole(90), Whole(80), split))] :
     plan \in RampPlans, h \in RawHeartrate \ {Null}, split \in SplitVals}

\* the timestamps of a ride paused for an hour, with samples one second before
\* and at 3600 s and 3900 s
PausedTimes == <<0, 1, 2, 3, 4, 12, 3599, 3600, 3899, 3900>>

\* powers of 40 W with a surge at 3600 s and 3899 s
Surge(surge) ==
  [i \in 1..Len(PausedTimes) |-> IF PausedTimes[i] \in {3600, 3899} THEN surge ELSE Whole(40)]

\* rides paused for an hour, with and without a surge after the pause
PausedStreams ==
  {[time |-> SeqChannel([i \in 1..Len(PausedTimes) |-> Whole(PausedTimes[i])]),
    watts |-> SeqChannel(Surge(surge)),
    heartrate |-> SeqChannel([i \in 1..Len(PausedTimes) |-> h]),
    distance |-> SeqChannel(<<>>),
    altitude |-> SeqChannel(<<>>),
    velocity_smooth |-> SeqChannel(<<>>),
    cadence |-> SeqChannel(<<>>)] :
     surge \in {Whole(40), Whole(240)}, h \in RawHeartrate \ {Null}}

Init ==
  /\ pc = "raw"
  /\ raw \in RawStreams \cup RampStreams \cup PausedStreams
  /\ streams = EmptyStreams
  /\ options \in OptionVals
  /\ segments = NoPlan
  /\ metrics = NoMetrics
  /\ history = NoHistory
  /\ baseline = NoBaseline
  /\ args = NoArgs
  /\ result = NoResult
  /\ calls = NoCalls
  /\ NoService

CalculateMetrics ==
  /\ pc = "sanitized"
  /\ metrics' = calculateMetrics(streams, options)
  /\ pc' = "done"
  /\ UNCHANGED <<raw, streams, options, segments, history, baseline, args, result, calls,
               db, net, clock, buckets>>

Next == SanitizeStreams \/ CalculateMetrics

Spec == Init /\ [][Next]_vars

\* ---- inputs of the Baseline Aggregator -----------------------------------
MaxRows == 3

\* a field of a row: null, a number, a numeric string
RowVals == {Null, Whole(3), NumStr(-1, 2)}

\* a row whose fields take the values a and b in turn
Row(a, b) ==
  [pw_hr_drift |-> a, rolling5_diff |-> b, power_150_delta |-> a, z2_early |-> b,
   z2_late |-> a, cadence_drop |-> b, hr_creep |-> a]

\* the rows of the table, one of them without the columns of b, one with 'NaN'
\* in these columns
Rows ==
  {Row(a, b) : a \in RowVals, b \in RowVals} \cup {Row(Whole(3), Undef), Row(Whole(3), Str)}

Histories ==
  {NoHistory} \cup {[missing |-> FALSE, rows |-> r] : r \in UNION {[1..m -> Rows] : m \in 0..MaxRows}}

InitBase ==
  /\ pc = "history"
  /\ raw = NoRaw
  /\ streams = EmptyStreams
  /\ options = NoOptions
  /\ segments = NoPlan
  /\ metrics = NoMetrics
  /\ history \in Histories
  /\ baseline = NoBaseline
  /\ args = NoArgs
  /\ result = NoResult
  /\ calls = NoCalls
  /\ NoService

ComputeDurabilityBaseline ==
  /\ pc = "history"
  /\ baseline' = computeDurabilityBaseline(history)
  /\ pc' = "baselined"
  /\ UNCHANGED <<raw, streams, options, segments, metrics, history, args, result, calls,
               db, net, clock, buckets>>

NextBase == ComputeDurabilityBaseline

SpecBase == InitBase /\ [][NextBase]_vars

\* ---- inputs of clamp ------------------------------------------------------
ClampVals ==
  {Null, Undef, NaN, Str, NegInf, Whole(-5), Whole(0), Rat(1, 2), Whole(3), Whole(10), PosInf}

ClampBounds == {Whole(-2), Whole(0), Rat(1, 2), Whole(3), PosInf}

\* clamp(value, min, max) for every range min <= max
ClampArgs ==
  {[value |-> v, min |-> b[1], max |-> b[2]] :
     v \in ClampVals, b \in {c \in ClampBounds \X ClampBounds : JsLe(c[1], c[2])}}

InitClamp ==
  /\ pc = "args"
  /\ raw = NoRaw
  /\ streams = EmptyStreams
  /\ options = NoOptions
  /\ segments = NoPlan
  /\ metrics = NoMetrics
  /\ history = NoHistory
  /\ baseline = NoBaseline
  /\ args \in ClampArgs
  /\ result = NoResult
  /\ calls = NoCalls
  /\ NoService

\* r = clamp(value, min, max)
Clamp ==
  /\ pc = "args"
  /\ result' = <<clamp(args.value, args.min, args.max)>>
  /\ pc' = "clamped"
  /\ UNCHANGED <<raw, streams, options, segments, metrics, history, baseline, args, calls,
               db, net, clock, buckets>>

\* clamp(r, min, max)
ClampAgain ==
  /\ pc = "clamped"
  /\ result' = Append(result, clamp(result[1], args.min, args.max))
  /\ pc' = "reclamped"
  /\ UNCHANGED <<raw, streams, options, segments, metrics, history, baseline, args, calls,
               db, net, clock, buckets>>

NextClamp == Clamp \/ ClampAgain

SpecClamp == InitClamp /\ [][NextClamp]_vars

\* ---- inputs of normalizedPower ---------------------------------------------
\* values.length < 30
MinPowerSamples == 30

\* the largest number of power samples
MaxPowerLen == 30

\* power samples in watts
PowerVals == {Whole(0), Whole(1), Whole(2)}

\* the index after which the power changes
PowerSplits == {1, 2, 15}

\* <<first timestamp, early step, late step, number of early steps>> in seconds:
\* one sample per second for 29 s and a pause after it, two samples 29 s apart
\* and pauses after them, one sample every 30 s, one every 31 s
PowerPacing ==
  {<<from, p[1], p[2], p[3]>> :
     from \in {0, 100}, p \in {<<1, 31, 29>>, <<29, 31, 1>>, <<30, 30, 1>>, <<31, 31, 1>>}}

\* n non-decreasing timestamps: count steps of early, then steps of late
TwoPace(n, from, early, late, count) ==
  [i \in 1..n |->
     Whole(IF i - 1 <= count THEN from + early * (i - 1)
           ELSE from + early * count + late * (i - 1 - count))]

PowerArgs ==
  {[values |-> TwoLevel(n, w[1], w[2], split),
    times |-> TwoPace(n, pace[1], pace[2], pace[3], pace[4])] :
     n \in (MinPowerSamples - 1)..MaxPowerLen, w \in PowerVals \X PowerVals,
     split \in PowerSplits, pace \in PowerPacing}

InitNP ==
  /\ pc = "args"
  /\ raw = NoRaw
  /\ streams = EmptyStreams
  /\ options = NoOptions
  /\ segments = NoPlan
  /\ metrics = NoMetrics
  /\ history = NoHistory
  /\ baseline = NoBaseline
  /\ args \in PowerArgs
  /\ result = NoResult
  /\ calls = NoCalls
  /\ NoService

\* normalizedPower(values, times)
NormalizedPower ==
  /\ pc = "args"
  /\ result' = <<normalizedPower(args.values, args.times)>>
  /\ pc' = "normalized"
  /\ UNCHANGED <<raw, streams, options, segments, metrics, history, baseline, args, calls,
               db, net, clock, buckets>>

NextNP == NormalizedPower

SpecNP == InitNP /\ [][NextNP]_vars

\* ---- interleaved invocations of the pipeline -------------------------------
\* the largest number of invocations in progress at once
MaxCalls == 2

\* a raw streams object with time, power and heart rate
Ride(time, watts, heartrate) ==
  [time |-> SeqChannel(time),
   watts |-> SeqChannel(watts),
   heartrate |-> SeqChannel(heartrate),
   distance |-> SeqChannel(<<>>),
   altitude |-> SeqChannel(<<>>),
   velocity_smooth |-> SeqChannel(<<>>),
   cadence |-> SeqChannel(<<>>)]

\* 240 W throughout, the heart rate below the clamp range at first
SteadyRide ==
  Ride(Timeline(MaxLen, 60, 0), TwoLevel(MaxLen, Whole(240), Whole(240), 4),
       TwoLevel(MaxLen, Whole(30), Whole(120), 4))

\* power falling by 40 W per sample at 120 bpm
FadingRide ==
  Ride(Timeline(MaxLen, 60, 0), Ramp(MaxLen, 40, 40, 4),
       TwoLevel(MaxLen, Whole(120), Whole(120), 4))

\* a ride of fewer than 10 samples
ShortRide ==
  Ride(Timeline(MinSamples - 1, 1, 0),
       TwoLevel(MinSamples - 1, Whole(-5), Whole(240), 4),
       TwoLevel(MinSamples - 1, Whole(120), Whole(120), 4))

\* the arguments of one invocation: the streams fetched, the athlete's heart
\* rates, the rows loaded
CallArgs ==
  {[raw |-> SteadyRide, options |-> NoOptions, history |-> NoHistory],
   [raw |-> SteadyRide,
    options |-> [heartRateMax |-> Whole(150), heartRateRest |-> Whole(50)],
    history |-> [missing |-> FALSE,
                 rows |-> <<Row(Whole(3), Null), Row(NumStr(-1, 2), Whole(3))>>]],
   [raw |-> FadingRide,
    options |-> [heartRateMax |-> Whole(150), heartRateRest |-> Whole(50)],
    history |-> [missing |-> FALSE, rows |-> <<Row(Whole(3), Whole(3))>>]],
   [raw |-> ShortRide, options |-> NoOptions,
    history |-> [missing |-> FALSE, rows |-> <<Row(Whole(3), Whole(3))>>]]}

\* an invocation before its first call
NewCall(a) ==
  [pc |-> "raw", raw |-> a.raw, options |-> a.options, history |-> a.history,
   streams |-> EmptyStreams, segments |-> NoPlan, metrics |-> NoMetrics,
   baseline |-> NoBaseline]

InitCalls ==
  /\ pc = "calls"
  /\ raw = NoRaw
  /\ streams = EmptyStreams
  /\ options = NoOptions
  /\ segments = NoPlan
  /\ metrics = NoMetrics
  /\ history = NoHistory
  /\ baseline = NoBaseline
  /\ args = NoArgs
  /\ result = NoResult
  /\ calls \in {[i \in 1..MaxCalls |-> NewCall(a[i])] : a \in [1..MaxCalls -> CallArgs]}
  /\ NoService

\* the frame of an action on invocation i
OnlyCalls ==
  UNCHANGED <<pc, raw, streams, options, segments, metrics, history, baseline, args, result,
              db, net, clock, buckets>>

\* const streams = sanitizeStreams(streamsRaw) in invocation i
CallSanitizeStreams(i) ==
  /\ calls[i].pc = "raw"
  /\ LET r == sanitizeStreams(calls[i].raw)
     IN calls' = IF r.raised THEN [calls EXCEPT ![i].pc = "raised"]
                 ELSE [calls EXCEPT ![i].pc = "sanitized", ![i].streams = r.value]
  /\ OnlyCalls

\* computeSegments(streams) in invocation i
CallComputeSegments(i) ==
  /\ calls[i].pc = "sanitized"
  /\ calls' = [calls EXCEPT ![i].pc = "planned",
                            ![i].segments = computeSegments(calls[i].streams)]
  /\ OnlyCalls

\* invocation i takes the metrics of an invocation that has already returned
CallCalculateMetricsCached(i) ==
  /\ calls[i].pc = "planned"
  /\ calls' = [calls EXCEPT
       ![i].pc = "done",
       ![i].metrics =
         IF \E j \in 1..MaxCalls : calls[j].pc \in {"done", "baselined"}
           THEN calls[CHOOSE j \in 1..MaxCalls : calls[j].pc \in {"done", "baselined"}].metrics
         ELSE calculateMetrics(calls[i].streams, calls[i].options)]
  /\ OnlyCalls

\* const metrics = calculateMetrics(streams, {...}) in invocation i
CallCalculateMetrics(i) ==
  /\ calls[i].pc = "planned"
  /\ calls' = [calls EXCEPT
       ![i].pc = "done",
       ![i].metrics = calculateMetrics(calls[i].streams, calls[i].options)]
  /\ OnlyCalls

\* const baseline = computeDurabilityBaseline(history) in invocation i
CallComputeDurabilityBaseline(i) ==
  /\ calls[i].pc = "done"
  /\ calls' = [calls EXCEPT
       ![i].pc = "baselined",
       ![i].baseline = computeDurabilityBaseline(calls[i].history)]
  /\ OnlyCalls

NextCalls ==
  \E i \in 1..MaxCalls :
    \/ CallSanitizeStreams(i)
    \/ CallComputeSegments(i)
    \/ CallCalculateMetrics(i)
    \/ CallComputeDurabilityBaseline(i)

SpecCalls == InitCalls /\ [][NextCalls]_vars

\* ---- inputs of rollingAverage and computeBestAveragePower -------------------
\* the largest number of samples of a window search
MaxWinLen == 4

\* the seconds between one sample and the next
WinSteps == {0, 1, 3}

\* power samples in watts
WinVals == {Whole(1), Whole(4)}

\* timestamps from 0: each one the sum of the steps before it
TimesOf(steps) ==
  [i \in 1..(Len(steps) + 1) |-> Sum([j \in 1..(i - 1) |-> Whole(steps[j])])]

\* the offsets a search starts from: the first sample, inside the ride, after it
WinOffsets == {Whole(0), Whole(2), Whole(100)}

\* n aligned values and non-decreasing times, a window of 3 s, an offset
WinArgsOf(n) ==
  {[values |-> v, times |-> TimesOf(steps), windowSeconds |-> Whole(3), startTime |-> from] :
     v \in [1..n -> WinVals], steps \in [1..(n - 1) -> WinSteps], from \in WinOffsets}

WinArgs ==
  {[values |-> <<>>, times |-> <<>>, windowSeconds |-> Whole(3), startTime |-> Whole(0)]}
    \cup UNION {WinArgsOf(n) : n \in 1..MaxWinLen}

InitWin ==
  /\ pc = "args"
  /\ raw = NoRaw
  /\ streams = EmptyStreams
  /\ options = NoOptions
  /\ segments = NoPlan
  /\ metrics = NoMetrics
  /\ history = NoHistory
  /\ baseline = NoBaseline
  /\ args \in WinArgs
  /\ result = NoResult
  /\ calls = NoCalls
  /\ NoService

\* rollingAverage(values, times, windowSeconds)
RollingAverage ==
  /\ pc = "args"
  /\ result' = <<rollingAverage(args.values, args.times, args.windowSeconds)>>
  /\ pc' = "rolled"
  /\ UNCHANGED <<raw, streams, options, segments, metrics, history, baseline, args, calls,
               db, net, clock, buckets>>

\* computeBestAveragePower(values, times, windowSeconds, startTime)
ComputeBestAveragePower ==
  /\ pc = "args"
  /\ result' = <<computeBestAveragePower(args.values, args.times, args.windowSeconds,
                                          args.startTime)>>
  /\ pc' = "searched"
  /\ UNCHANGED <<raw, streams, options, segments, metrics, history, baseline, args, calls,
               db, net, clock, buckets>>

NextWin == RollingAverage \/ ComputeBestAveragePower

SpecWin == InitWin /\ [][NextWin]_vars

\* ---- inputs of computeTimeInRange and computeHrrTimeInRange -----------------
\* the largest number of samples of a segment
MaxZoneLen == 3

\* heart rates in bpm: below the band, inside it
ZoneVals == {Whole(100), Whole(130)}

\* the heart rate put in place of the last one
ZoneLastVals == ZoneVals \cup {Null}

\* n heart rates with their timestamps, the heart rate that replaces the last
\* one, the band in bpm, the athlete's heart rates and the band in percent of
\* the reserve (110 to 140 bpm for a reserve of 50 to 150 bpm)
ZoneArgsOf(n) ==
  {[times |-> TimesOf(steps), values |-> v, last |-> other,
    min |-> Whole(120), max |-> Whole(140),
    heartRateRest |-> o.heartRateRest, heartRateMax |-> o.heartRateMax,
    minPercent |-> Whole(60), maxPercent |-> Whole(90)] :
     v \in [1..n -> ZoneVals], steps \in [1..(n - 1) -> WinSteps],
     other \in ZoneLastVals, o \in OptionVals}

ZoneArgs == UNION {ZoneArgsOf(n) : n \in 1..MaxZoneLen}

\* values with the last sample replaced
WithLast(values, last) == [values EXCEPT ![Len(values)] = last]

InitZone ==
  /\ pc = "args"
  /\ raw = NoRaw
  /\ streams = EmptyStreams
  /\ options = NoOptions
  /\ segments = NoPlan
  /\ metrics = NoMetrics
  /\ history = NoHistory
  /\ baseline = NoBaseline
  /\ args \in ZoneArgs
  /\ result = NoResult
  /\ calls = NoCalls
  /\ NoService

\* computeTimeInRange(times, values, [min, max]) on the segment and on the
\* segment with another last heart rate
ComputeTimeInRange ==
  /\ pc = "args"
  /\ result' = <<computeTimeInRange(args.times, args.values, args.min, args.max),
                 computeTimeInRange(args.times, WithLast(args.values, args.last),
                                    args.min, args.max)>>
  /\ pc' = "ranged"
  /\ UNCHANGED <<raw, streams, options, segments, metrics, history, baseline, args, calls,
               db, net, clock, buckets>>

\* computeHrrTimeInRange(times, values, {...}) on the segment and on the
\* segment with another last heart rate
ComputeHrrTimeInRange ==
  /\ pc = "args"
  /\ result' = <<computeHrrTimeInRange(args.times, args.values, args.heartRateRest,
                                       args.heartRateMax, args.minPercent, args.maxPercent),
                 computeHrrTimeInRange(args.times, WithLast(args.values, args.last),
                                       args.heartRateRest, args.heartRateMax,
                                       args.minPercent, args.maxPercent)>>
  /\ pc' = "reserved"
  /\ UNCHANGED <<raw, streams, options, segments, metrics, history, baseline, args, calls,
               db, net, clock, buckets>>

NextZone == ComputeTimeInRange \/ ComputeHrrTimeInRange

SpecZone == InitZone /\ [][NextZone]_vars

\* ---- invocations of processActivity -----------------------------------------
\* the invocations of processActivity for one activity: the queue runs one per
\* webhook event and per retry of a failed job
MaxRuns == 2

\* a raw streams object whose watts data is no array
BrokenRide == [SteadyRide EXCEPT !.watts = [shape |-> "scalar", data |-> <<>>]]

\* the streams Strava returns for the activity
FetchedRides == {SteadyRide, ShortRide, BrokenRide}

\* the athlete's heart rates on the activity Strava returns
FetchedOptions == {[heartRateMax |-> Whole(150), heartRateRest |-> Whole(50)]}

\* an invocation before its first statement.  done lists the calls that have
\* completed, failed names the call that raised, late tells that the lookup of
\* the invocation found the activity marked
NewRun ==
  [pc |-> "queued", fetched |-> {}, raw |-> NoRaw, options |-> NoOptions,
   metrics |-> NoMetrics, done |-> <<>>, failed |-> "none", late |-> FALSE]

InitProc ==
  /\ pc = "proc"
  /\ raw = NoRaw
  /\ streams = EmptyStreams
  /\ options = NoOptions
  /\ segments = NoPlan
  /\ metrics = NoMetrics
  /\ history = NoHistory
  /\ baseline = NoBaseline
  /\ args = NoArgs
  /\ result = NoResult
  /\ calls = [i \in 1..MaxRuns |-> NewRun]
  /\ db \in {[pool |-> p, processed |-> FALSE, rows |-> 0] : p \in BOOLEAN}
  /\ net = NoNet
  /\ clock = 0
  /\ buckets = NoBuckets

\* the frame of an action that touches neither the database nor Strava
OnlyRuns ==
  UNCHANGED <<pc, raw, streams, options, segments, metrics, history, baseline, args, result,
              db, net, clock, buckets>>

\* the frame of an action that writes to the database
OnlyRunsAndDb ==
  UNCHANGED <<pc, raw, streams, options, segments, metrics, history, baseline, args, result,
              net, clock, buckets>>

\* the frame of an action that writes to Strava
OnlyRunsAndNet ==
  UNCHANGED <<pc, raw, streams, options, segments, metrics, history, baseline, args, result,
              db, clock, buckets>>

\* a call of invocation i raised inside the try block: the catch logs and rethrows
Raised(i, step) == [calls EXCEPT ![i].pc = "raised", ![i].failed = step]

\* a call of invocation i completed
Completed(i, step, next) ==
  [calls EXCEPT ![i].pc = next, ![i].done = Append(calls[i].done, step)]

\* const alreadyProcessed = await isActivityProcessed(...); if (alreadyProcessed) return
IsActivityProcessed(i) ==
  /\ calls[i].pc = "queued"
  /\ \/ calls' = [calls EXCEPT
          ![i].pc = IF db.pool /\ db.processed THEN "skipped" ELSE "token",
          ![i].late = db.pool /\ db.processed]
     \/ /\ db.pool
        /\ calls' = Raised(i, "lookup")
  /\ OnlyRuns

\* const accessToken = await getValidToken(athleteId): getAthleteToken throws
\* without a database
GetValidToken(i) ==
  /\ calls[i].pc = "token"
  /\ \/ /\ db.pool
        /\ calls' = Completed(i, "token", "fetch")
     \/ calls' = Raised(i, "token")
  /\ OnlyRuns

\* the statements between the two fetches and the load of the history, without
\* the test of metrics.error
afterFetchUnchecked(c) ==
  LET s == sanitizeStreams(c.raw)
      m == calculateMetrics(s.value, c.options)
  IN IF s.raised THEN [c EXCEPT !.pc = "raised", !.failed = "sanitize"]
     ELSE [c EXCEPT !.pc = "history", !.metrics = m]

\* the statements between the two fetches and the load of the history:
\* sanitizeStreams, calculateMetrics, if (metrics.error) return
afterFetch(c) ==
  LET s == sanitizeStreams(c.raw)
      m == calculateMetrics(s.value, c.options)
  IN IF s.raised THEN [c EXCEPT !.pc = "raised", !.failed = "sanitize"]
     ELSE IF "error" \in DOMAIN m THEN [c EXCEPT !.pc = "nometrics", !.metrics = m]
     ELSE [c EXCEPT !.pc = "history", !.metrics = m]

\* one promise of Promise.all has resolved: the statements after the await run
\* once both have
Fetched(c, step) ==
  LET d == [c EXCEPT !.fetched = c.fetched \cup {step}, !.done = Append(c.done, step)]
  IN IF d.fetched = {"activity", "streams"} THEN afterFetch(d) ELSE d

\* fetchActivity(accessToken, activityId)
FetchActivity(i) ==
  /\ calls[i].pc = "fetch"
  /\ "activity" \notin calls[i].fetched
  /\ \/ \E o \in FetchedOptions :
          calls' = [calls EXCEPT ![i] = Fetched([calls[i] EXCEPT !.options = o], "activity")]
     \/ calls' = Raised(i, "activity")
  /\ OnlyRuns

\* fetchStreams(accessToken, activityId)
FetchStreams(i) ==
  /\ calls[i].pc = "fetch"
  /\ "streams" \notin calls[i].fetched
  /\ \/ \E r \in FetchedRides :
          calls' = [calls EXCEPT ![i] = Fetched([calls[i] EXCEPT !.raw = r], "streams")]
     \/ calls' = Raised(i, "streams")
  /\ OnlyRuns

\* const history = await loadBaselineMetrics(...), then the baseline and the
\* text of the block, which touch nothing outside the invocation
LoadBaselineMetrics(i) ==
  /\ calls[i].pc = "history"
  /\ \/ calls' = Completed(i, "history", "update")
     \/ /\ db.pool
        /\ calls' = Raised(i, "history")
  /\ OnlyRuns

\* await updateActivityDescription(accessToken, activityId, description)
UpdateActivityDescription(i) ==
  /\ calls[i].pc = "update"
  /\ \/ /\ calls' = Completed(i, "update", "save")
        /\ net' = [net EXCEPT !.updates = net.updates + 1]
     \/ /\ calls' = Raised(i, "update")
        /\ net' = net
  /\ OnlyRunsAndNet

\* saveAthleteMetrics goes on to markActivityProcessed when the query fails
SaveAthleteMetricsSwallowed(i) ==
  /\ calls[i].pc = "save"
  /\ \/ /\ calls' = Completed(i, "save", "mark")
        /\ db' = [db EXCEPT !.rows = IF db.pool THEN 1 ELSE db.rows]
     \/ /\ db.pool
        /\ calls' = [calls EXCEPT ![i].pc = "mark", ![i].failed = "save"]
        /\ db' = db
  /\ OnlyRunsAndDb

\* await saveAthleteMetrics(...): one row per activity, inserted or updated
SaveAthleteMetrics(i) ==
  /\ calls[i].pc = "save"
  /\ \/ /\ calls' = Completed(i, "save", "mark")
        /\ db' = [db EXCEPT !.rows = IF db.pool THEN 1 ELSE db.rows]
     \/ /\ db.pool
        /\ calls' = Raised(i, "save")
        /\ db' = db
  /\ OnlyRunsAndDb

\* await markActivityProcessed(...): an error of the insert is logged, not raised
MarkActivityProcessed(i) ==
  /\ calls[i].pc = "mark"
  /\ calls' = Completed(i, "mark", "returned")
  /\ \/ db' = [db EXCEPT !.processed = db.processed \/ db.pool]
     \/ /\ db.pool
        /\ db' = db
  /\ OnlyRunsAndDb

NextProc ==
  \E i \in 1..MaxRuns :
    \/ IsActivityProcessed(i)
    \/ GetValidToken(i)
    \/ FetchActivity(i)
    \/ FetchStreams(i)
    \/ LoadBaselineMetrics(i)
    \/ UpdateActivityDescription(i)
    \/ SaveAthleteMetrics(i)
    \/ MarkActivityProcessed(i)

SpecProc == InitProc /\ [][NextProc]_vars

\* ---- the rate limiter ---------------------------------------------------------
\* Times are milliseconds since the module was loaded: refill reads only
\* differences of Date.now().
FIFTEEN_MINUTES == 15 * 60 * 1000

ONE_DAY == 24 * 60 * 60 * 1000

createBucket(capacity, refillInterval, refillAmount, now) ==
  [capacity |-> capacity, tokens |-> capacity, lastRefill |-> now,
   refillInterval |-> refillInterval, refillAmount |-> refillAmount]

\* refill without Math.min: the tokens of the intervals elapsed are all added
refillUncapped(bucket, now) ==
  LET elapsed == now - bucket.lastRefill
      increments == elapsed \div bucket.refillInterval
  IN IF elapsed >= bucket.refillInterval
       THEN [bucket EXCEPT
               !.tokens = bucket.tokens + increments * bucket.refillAmount,
               !.lastRefill = bucket.lastRefill + increments * bucket.refillInterval]
       ELSE bucket

\* refill(bucket) at Date.now() = now: the bucket after the call
refill(bucket, now) ==
  LET elapsed == now - bucket.lastRefill
      increments == elapsed \div bucket.refillInterval
  IN IF elapsed >= bucket.refillInterval
       THEN [bucket EXCEPT
               !.tokens =
                 IF bucket.capacity <= bucket.tokens + increments * bucket.refillAmount
                   THEN bucket.capacity
                   ELSE bucket.tokens + increments * bucket.refillAmount,
               !.lastRefill = bucket.lastRefill + increments * bucket.refillInterval]
       ELSE bucket

shortBucket == createBucket(200, FIFTEEN_MINUTES, 200, 0)

dailyBucket == createBucket(2000, ONE_DAY, 2000, 0)

\* the two buckets after refill(shortBucket); refill(dailyBucket)
refilled(b, now) == [short |-> refill(b.short, now), daily |-> refill(b.daily, now)]

\* consumeToken() at Date.now() = now: the value returned and the buckets left
consumeToken(b, now) ==
  LET r == refilled(b, now)
  IN IF r.short.tokens <= 0 \/ r.daily.tokens <= 0
       THEN [granted |-> FALSE, buckets |-> r]
       ELSE [granted |-> TRUE,
             buckets |-> [short |-> [r.short EXCEPT !.tokens = r.short.tokens - 1],
                          daily |-> [r.daily EXCEPT !.tokens = r.daily.tokens - 1]]]

\* the moves of the clock between two bursts of calls: ten minutes at a time,
\* then a day at a time
MaxTicks == 15

MaxDays == 1

TEN_MINUTES == 10 * 60 * 1000

\* calls arrive in bursts of the size of the short bucket
Bursts == {200}

\* the start of the span of time over which the grants are counted
SpanStarts == {0, TEN_MINUTES}

\* args: the calls still to come at this clock value and the start of the span
\* observed; result: the outcome of the last call, "granted" (next() is called,
\* reserveTokenOrThrow returns) or "denied" (a 429 response is sent,
\* reserveTokenOrThrow throws); calls: the number of clock moves and the grants
\* counted since the start of the span
InitLimit ==
  /\ pc = "limiter"
  /\ raw = NoRaw
  /\ streams = EmptyStreams
  /\ options = NoOptions
  /\ segments = NoPlan
  /\ metrics = NoMetrics
  /\ history = NoHistory
  /\ baseline = NoBaseline
  /\ args \in {[pending |-> 0, from |-> t] : t \in SpanStarts}
  /\ result = [outcome |-> "none"]
  /\ calls = [ticks |-> 0, days |-> 0, granted |-> 0]
  /\ db = NoDb
  /\ net = NoNet
  /\ clock = 0
  /\ buckets = [short |-> shortBucket, daily |-> dailyBucket]

OnlyLimiter ==
  UNCHANGED <<pc, raw, streams, options, segments, metrics, history, baseline, db, net>>

\* a burst of calls arrives
Arrive ==
  /\ args.pending = 0
  /\ \E b \in Bursts : args' = [args EXCEPT !.pending = b]
  /\ UNCHANGED <<result, calls, clock, buckets>>
  /\ OnlyLimiter

\* ten minutes pass between two bursts
Tick ==
  /\ args.pending = 0
  /\ calls.ticks < MaxTicks
  /\ clock' = clock + TEN_MINUTES
  /\ calls' = [calls EXCEPT !.ticks = calls.ticks + 1]
  /\ UNCHANGED <<args, result, buckets>>
  /\ OnlyLimiter

\* a day passes between two bursts
NextDay ==
  /\ args.pending = 0
  /\ calls.ticks = MaxTicks
  /\ calls.days < MaxDays
  /\ clock' = clock + ONE_DAY
  /\ calls' = [calls EXCEPT !.days = calls.days + 1]
  /\ UNCHANGED <<args, result, buckets>>
  /\ OnlyLimiter

\* one call of consumeToken, counted when it is granted inside the span
Consumed ==
  LET c == consumeToken(buckets, clock)
  IN /\ buckets' = c.buckets
     /\ result' = [outcome |-> IF c.granted THEN "granted" ELSE "denied"]
     /\ calls' = IF c.granted /\ clock >= args.from
                   THEN [calls EXCEPT !.granted = calls.granted + 1]
                   ELSE calls
     /\ args' = [args EXCEPT !.pending = args.pending - 1]
     /\ clock' = clock

\* tokenBucketMiddleware(req, res, next): next() or a 429 response
TokenBucketMiddleware ==
  /\ args.pending > 0
  /\ Consumed
  /\ OnlyLimiter

\* reserveTokenOrThrow(): returns or throws an error of status 429
ReserveTokenOrThrow ==
  /\ args.pending > 0
  /\ Consumed
  /\ OnlyLimiter

NextLimit ==
  \/ Arrive
  \/ Tick
  \/ NextDay
  \/ TokenBucketMiddleware
  \/ ReserveTokenOrThrow

SpecLimit == InitLimit /\ [][NextLimit]_vars

\* ---- axiosWithRetry -------------------------------------------------------------
RECURSIVE TwoToThe(_)
TwoToThe(k) == IF k <= 0 THEN 1 ELSE 2 * TwoToThe(k - 1)

\* computeBackoff without Math.min: the delay doubles with every attempt
computeBackoffUncapped(attempt) == 5 * 60 * 1000 * TwoToThe(attempt - 1)

\* computeBackoff(attempt), in milliseconds
computeBackoff(attempt) ==
  LET base == 5 * 60 * 1000
      delay == base * TwoToThe(attempt - 1)
  IN IF delay <= 10 * 60 * 1000 THEN delay ELSE 10 * 60 * 1000

\* the largest value of the option attempts
MaxAttempts == 4

FreshBuckets == [short |-> shortBucket, daily |-> dailyBucket]

\* the buckets after k calls of consumeToken granted since the module was loaded
AfterGrants(k) ==
  [short |-> [shortBucket EXCEPT !.tokens = shortBucket.capacity - k],
   daily |-> [dailyBucket EXCEPT !.tokens = dailyBucket.capacity - k]]

\* the buckets when axiosWithRetry is called: untouched, one token short of
\* empty, or emptied by the requests of other callers
BucketsAtCall == {FreshBuckets, AfterGrants(199), AfterGrants(200)}

\* how a request ends: a response of status 200, an AxiosError with a response
\* of status 429 or 500, an AxiosError without response, an error that is no
\* AxiosError
Responses == {"200", "429", "500", "no response", "other error"}

\* calls is the invocation: the option attempts, the loop variable attempt, the
\* requests sent, the tokens reserved, the delays waited and the way each
\* request ended; result is how the invocation ended
InitRetry ==
  /\ pc = "retry"
  /\ raw = NoRaw
  /\ streams = EmptyStreams
  /\ options = NoOptions
  /\ segments = NoPlan
  /\ metrics = NoMetrics
  /\ history = NoHistory
  /\ baseline = NoBaseline
  /\ args = NoArgs
  /\ result = [outcome |-> "none", error |-> "none"]
  /\ \E n \in 0..MaxAttempts :
       calls = [pc |-> "loop", attempts |-> n, attempt |-> 1, requests |-> 0,
                reserved |-> 0, waits |-> <<>>, responses |-> <<>>]
  /\ db = NoDb
  /\ net = NoNet
  /\ clock = 0
  /\ buckets \in BucketsAtCall

OnlyRetry ==
  UNCHANGED <<pc, raw, streams, options, segments, metrics, history, baseline, args, db, net>>

\* the invocation ends by throwing error
Thrown(error) == [outcome |-> "raised", error |-> error]

\* from the head of the loop to the await of axios(config): the loop test,
\* reserveTokenOrThrow, whose error is no AxiosError and is rethrown by the
\* catch, and the sending of the request
Attempt ==
  /\ calls.pc = "loop"
  /\ LET c == consumeToken(buckets, clock)
     IN IF calls.attempt > calls.attempts
          THEN /\ calls' = [calls EXCEPT !.pc = "ended"]
               /\ result' = Thrown("axiosWithRetry exhausted attempts")
               /\ buckets' = buckets
          ELSE IF ~c.granted
            THEN /\ calls' = [calls EXCEPT !.pc = "ended"]
                 /\ result' = Thrown("Strava token bucket exhausted")
                 /\ buckets' = c.buckets
            ELSE /\ calls' = [calls EXCEPT !.pc = "request",
                                           !.reserved = calls.reserved + 1,
                                           !.requests = calls.requests + 1]
                 /\ result' = result
                 /\ buckets' = c.buckets
  /\ clock' = clock
  /\ OnlyRetry

\* return await axios(config), and the catch block when the request ended as r
Settled(r) ==
  IF r = "200"
    THEN /\ calls' = [calls EXCEPT !.pc = "ended", !.responses = Append(calls.responses, r)]
         /\ result' = [outcome |-> "returned", error |-> "none"]
  ELSE IF r = "429" /\ calls.attempt < calls.attempts
    THEN /\ calls' = [calls EXCEPT !.pc = "waiting",
                                   !.responses = Append(calls.responses, r),
                                   !.waits = Append(calls.waits, computeBackoff(calls.attempt))]
         /\ result' = result
  ELSE /\ calls' = [calls EXCEPT !.pc = "ended", !.responses = Append(calls.responses, r)]
       /\ result' = Thrown(r)

\* the request of the attempt ends
Respond ==
  /\ calls.pc = "request"
  /\ \E r \in Responses : Settled(r)
  /\ UNCHANGED <<clock, buckets>>
  /\ OnlyRetry

\* await wait(delay); continue: the timer fires and the loop goes on
Waited ==
  /\ calls.pc = "waiting"
  /\ clock' = clock + calls.waits[Len(calls.waits)]
  /\ calls' = [calls EXCEPT !.pc = "loop", !.attempt = calls.attempt + 1]
  /\ UNCHANGED <<result, buckets>>
  /\ OnlyRetry

NextRetry ==
  \/ Attempt
  \/ Respond
  \/ Waited

\* every request is settled by axios and every timer fires
SpecRetry == InitRetry /\ [][NextRetry]_vars /\ WF_vars(NextRetry)

(***************************************************************************)
(* Properties of the Segment Planner                                       *)
(***************************************************************************)
\* times.length - 1
LastIndex == Len(streams.time) - 1

\* C1: for every non-empty time sequence with non-decreasing timestamps,
\* computeSegments returns exactly 4 quartiles; the first starts at index 0, the
\* last ends at the last index, every later quartile starts where the previous
\* one ended, and every segment satisfies 0 <= start <= end < length(time).
C1_QuartilesChainAndCover ==
  (pc = "planned" /\ Len(streams.time) > 0) =>
    /\ ~segments.isNull
    /\ Len(segments.quartiles) = 4
    /\ segments.quartiles[1][1] = 0
    /\ segments.quartiles[4][2] = LastIndex
    /\ \A k \in 2..4 : segments.quartiles[k][1] = segments.quartiles[k - 1][2]
    /\ \A k \in 1..4 :
         /\ 0 <= segments.quartiles[k][1]
         /\ segments.quartiles[k][1] <= segments.quartiles[k][2]
         /\ segments.quartiles[k][2] < Len(streams.time)
    /\ segments.firstHalf = <<0, segments.quartiles[2][2]>>
    /\ segments.secondHalf = <<segments.quartiles[3][1], LastIndex>>

\* a planned stream with a quartile of several samples and a padded [last, last] quartile
C1_Witness ==
  /\ pc = "planned"
  /\ Len(streams.time) >= 3
  /\ segments.quartiles[2][1] < segments.quartiles[2][2]
  /\ segments.quartiles[3] = <<LastIndex, LastIndex>>
  /\ segments.quartiles[4] = <<LastIndex, LastIndex>>

\* C8: quartiles are cut by elapsed time: for a non-empty stream starting at 0
\* with last timestamp D, every sample of quartile k other than its final
\* (shared) sample has a timestamp within [(k-1)*D/4, k*D/4], recording gaps
\* that skip boundaries included.
C8_QuartilesByElapsedTime ==
  (pc = "planned" /\ Len(streams.time) > 0 /\ streams.time[1] = Whole(0)) =>
    LET D == At(streams.time, LastIndex)
        InQuartileWindow(i, k) ==
          /\ JsLe(JsMul(D, Rat(k - 1, 4)), At(streams.time, i))
          /\ JsLe(At(streams.time, i), JsMul(D, Rat(k, 4)))
    IN \A k \in 1..4 :
         \A i \in segments.quartiles[k][1]..(segments.quartiles[k][2] - 1) :
           InQuartileWindow(i, k)

(***************************************************************************)
(* Properties of the Stream Sanitizer                                      *)
(***************************************************************************)
\* C5: sanitizeStreams returns watts and heartrate of the raw length, every
\* entry null or a number within [0, 2000] (watts) or [40, 220] (heartrate):
\* null, NaN and non-numeric entries become null, numbers outside the range
\* move to the nearest bound, numbers inside are unchanged.
C5_SanitizedEntries ==
  (pc = "sanitized" /\ raw.watts.shape = "seq" /\ raw.heartrate.shape = "seq") =>
    LET EntrySanitized(in, out, lo, hi) ==
          /\ out.k = "null" \/ (out.k = "num" /\ JsLe(lo, out) /\ JsLe(out, hi))
          /\ in.k \in {"null", "nan"} => out = Null
          /\ in.k \in {"str", "undef"} => out = Null
          /\ (in.k = "num" /\ JsLt(in, lo)) => out = lo
          /\ (in.k = "num" /\ JsGt(in, hi)) => out = hi
          /\ (in.k = "num" /\ JsLe(lo, in) /\ JsLe(in, hi)) => out = in
    IN /\ Len(streams.watts) = Len(raw.watts.data)
       /\ Len(streams.heartrate) = Len(raw.heartrate.data)
       /\ \A i \in 1..Len(raw.watts.data) :
            EntrySanitized(raw.watts.data[i], streams.watts[i], Whole(0), Whole(2000))
       /\ \A i \in 1..Len(raw.heartrate.data) :
            EntrySanitized(raw.heartrate.data[i], streams.heartrate[i], Whole(40), Whole(220))

\* C6: sanitizeStreams is total: whatever the shape of each of the seven
\* channels, it returns without raising, and every channel that is absent or
\* has no data is returned as an empty sequence.
C6_SanitizeTotal ==
  /\ pc # "raised"
  /\ pc = "sanitized" =>
       \A c \in Channels :
         raw[c].shape \in {"absent", "nodata", "nulldata"} =>
           streams[IF c = "velocity_smooth" THEN "velocity" ELSE c] = <<>>

(***************************************************************************)
(* Properties of the Metrics Engine                                        *)
(***************************************************************************)
\* calculateMetrics returned a metrics record: the caller's check of metrics.error
Computed == pc = "done" /\ "error" \notin DOMAIN metrics

\* C2: calculateMetrics returns an error sentinel with no other field exactly
\* when time, watts or heartrate has fewer than 10 entries ("Insufficient data")
\* or the Segment Planner yields no plan ("Unable to split segments"); for every
\* other input it returns a metrics record without an error field; it never raises.
C2_ErrorSentinelExactlyWhenShort ==
  LET TooShort == \/ Len(streams.time) < 10
                  \/ Len(streams.watts) < 10
                  \/ Len(streams.heartrate) < 10
      NoPlanMade == computeSegments(streams).isNull
  IN /\ pc # "raised"
     /\ pc = "done" =>
          /\ TooShort <=> metrics = [error |-> "Insufficient data"]
          /\ (~TooShort /\ NoPlanMade) <=> metrics = [error |-> "Unable to split segments"]
          /\ (TooShort \/ NoPlanMade) <=> "error" \in DOMAIN metrics
          /\ "error" \notin DOMAIN metrics => ~metrics.segments.isNull

\* watts alone is one entry short of the guard: the sentinel is returned
C2_Witness ==
  /\ pc = "done"
  /\ Len(streams.time) >= 10
  /\ Len(streams.heartrate) >= 10
  /\ Len(streams.watts) = 9
  /\ metrics = [error |-> "Insufficient data"]

\* C3: for every sanitized stream that passes the 10-sample guard, the
\* durabilityScore is either null or a number within [0, 100].
C3_ScoreNullOrInRange ==
  Computed =>
    \/ metrics.durabilityScore = Null
    \/ /\ metrics.durabilityScore.k = "num"
       /\ JsLe(Whole(0), metrics.durabilityScore)
       /\ JsLe(metrics.durabilityScore, Whole(100))

\* a score strictly inside the range, lowered by a positive power fade
C3_Witness ==
  /\ Computed
  /\ metrics.durabilityScore.k = "num"
  /\ JsLt(Whole(0), metrics.durabilityScore)
  /\ JsLt(metrics.durabilityScore, Whole(100))
  /\ metrics.powerFade.k = "num"
  /\ JsLt(Whole(0), metrics.powerFade)

\* C4: durabilityScore equals the arithmetic mean of the components
\* 100 - min(max(p, 0), 100) over exactly the non-null ones of powerFade,
\* pwHrDrift, efficiencyDecline and -slopePercentPerHour; it is null exactly
\* when all four are null.
C4_ScoreIsMeanOfDefinedComponents ==
  Computed =>
    LET slope == metrics.wattsPerBeatTrend.slopePercentPerHour
        penalties ==
          SelectSeq(<<metrics.powerFade, metrics.pwHrDrift, metrics.efficiencyDecline,
                      IF IsNullish(slope) THEN Null ELSE JsNeg(slope)>>,
                    LAMBDA p : ~IsNullish(p))
        stated == [i \in 1..Len(penalties) |->
                     JsSub(Whole(100),
                           MathMin(MathMax(penalties[i], Whole(0)), Whole(100)))]
    IN /\ metrics.durabilityScore =
            IF Len(stated) = 0 THEN Null ELSE JsDiv(Sum(stated), Whole(Len(stated)))
       /\ metrics.durabilityScore = Null <=> Len(penalties) = 0

\* C7: for every sanitized stream that passes the guard, no numeric field of the
\* metrics record (pwHrDrift, powerFade, efficiencyDecline, quartile efficiency
\* factors, watts-per-heartbeat slopes, zone shares, durabilityScore) is NaN or
\* +/-Infinity.
C7_NoNaNOrInfinity ==
  Computed =>
    LET FiniteOrNull(v) == v.k \in {"num", "null"}
    IN /\ FiniteOrNull(metrics.pwHrDrift)
       /\ FiniteOrNull(metrics.powerFade)
       /\ FiniteOrNull(metrics.efficiencyDecline)
       /\ \A k \in 1..4 : FiniteOrNull(metrics.quartiles[k].efficiencyFactor)
       /\ FiniteOrNull(metrics.wattsPerBeatTrend.slopePerHour)
       /\ FiniteOrNull(metrics.wattsPerBeatTrend.slopePercentPerHour)
       /\ FiniteOrNull(metrics.z2Early)
       /\ FiniteOrNull(metrics.z2Late)
       /\ FiniteOrNull(metrics.durabilityScore)

\* C9: pwHrDrift equals 100 * (R_late - R_early) / R_early with R = mean power /
\* mean heart rate over firstHalf and secondHalf, and it is null whenever a
\* half's mean heart rate is <= 0 or a mean of either half is unavailable.
C9_DriftOfHalfRatios ==
  Computed =>
    LET earlyW == mean(sliceSegment(streams.watts, metrics.segments.firstHalf))
        earlyH == mean(sliceSegment(streams.heartrate, metrics.segments.firstHalf))
        lateW == mean(sliceSegment(streams.watts, metrics.segments.secondHalf))
        lateH == mean(sliceSegment(streams.heartrate, metrics.segments.secondHalf))
    IN IF \/ \E m \in {earlyW, earlyH, lateW, lateH} : IsNullish(m)
          \/ JsLe(earlyH, Whole(0))
          \/ JsLe(lateH, Whole(0))
         THEN metrics.pwHrDrift = Null
         ELSE ~IsZero(JsDiv(earlyW, earlyH)) =>
                metrics.pwHrDrift =
                  JsMul(Whole(100),
                        JsDiv(JsSub(JsDiv(lateW, lateH), JsDiv(earlyW, earlyH)),
                              JsDiv(earlyW, earlyH)))

\* C10: for every sanitized stream with non-decreasing timestamps that passes
\* the guard, under the fixed band [120, 150] bpm and under the HRR band
\* [60, 70] percent, z2Early and z2Late are numbers within [0, 100].
C10_ZoneSharesInRange ==
  Computed =>
    \A share \in {metrics.z2Early, metrics.z2Late} :
      share.k = "num" /\ JsLe(Whole(0), share) /\ JsLe(share, Whole(100))

\* the HRR band splits the first quartile: a share strictly between 0 and 100
C10_Witness ==
  /\ Computed
  /\ Truthy(options.heartRateMax)
  /\ JsGt(options.heartRateMax, options.heartRateRest)
  /\ metrics.z2Early.k = "num"
  /\ JsLt(Whole(0), metrics.z2Early)
  /\ JsLt(metrics.z2Early, Whole(100))
  /\ metrics.z2Late = Whole(0)

\* C11: when heartRateMax and heartRateRest are both supplied and heartRateMax <=
\* heartRateRest, the zone shares z2Early and z2Late are 0 for every sanitized
\* heart-rate sequence (entries null or within [40, 220]).
C11_NoReserveGivesZeroShare ==
  (/\ Computed
   /\ ~IsNullish(options.heartRateMax)
   /\ ~IsNullish(options.heartRateRest)
   /\ JsLe(options.heartRateMax, options.heartRateRest)) =>
    /\ metrics.z2Early = Whole(0)
    /\ metrics.z2Late = Whole(0)

(***************************************************************************)
(* Properties of the Fatigue-Resistance Curve Builder                      *)
(***************************************************************************)
\* the total duration of the ride: the last timestamp
TotalDuration == At(streams.time, LastIndex)

\* C12: fatigueResistance is ordered by strictly increasing offset; every entry
\* has an offset among 0, 3600, 7200, 10800 with offset + 300 <= total duration
\* and a non-empty bestByDuration; every duration key is one of 300, 600, 1200,
\* 3600 with offset + duration <= total duration, and its value is a non-null
\* best power.
C12_FatigueEntriesWellFormed ==
  Computed =>
    LET fr == metrics.fatigueResistance
    IN /\ \A i \in 1..Len(fr) : \A j \in (i + 1)..Len(fr) : fr[i].offset < fr[j].offset
       /\ \A i \in 1..Len(fr) :
            /\ fr[i].offset \in {0, 3600, 7200, 10800}
            /\ JsLe(Whole(fr[i].offset + 300), TotalDuration)
            /\ Len(fr[i].bestByDuration) > 0
            /\ \A e \in 1..Len(fr[i].bestByDuration) :
                 /\ fr[i].bestByDuration[e].duration \in {300, 600, 1200, 3600}
                 /\ JsLe(Whole(fr[i].offset + fr[i].bestByDuration[e].duration),
                         TotalDuration)
                 /\ fr[i].bestByDuration[e].best.k = "num"
                 /\ \A f \in 1..(e - 1) :
                      fr[i].bestByDuration[f].duration # fr[i].bestByDuration[e].duration

\* a ride of over an hour: entries for the offsets 0 and 3600, the first with
\* several durations, the second with the 5-minute best only
C12_Witness ==
  /\ Computed
  /\ Len(metrics.fatigueResistance) = 2
  /\ metrics.fatigueResistance[1].offset = 0
  /\ Len(metrics.fatigueResistance[1].bestByDuration) >= 2
  /\ metrics.fatigueResistance[2].offset = 3600
  /\ Len(metrics.fatigueResistance[2].bestByDuration) = 1
  /\ metrics.fatigueResistance[2].bestByDuration[1].duration = 300

\* C13: for every stream that passes the guard, with non-decreasing timestamps
\* at any sampling interval, every offset o of 0, 3600, 7200, 10800 with total
\* duration >= o + 300 has an entry, and the entry holds a best power for every
\* duration d of 300, 600, 1200, 3600 with o + d <= total duration.
C13_FatigueEntriesComplete ==
  Computed =>
    LET fr == metrics.fatigueResistance
    IN \A o \in {0, 3600, 7200, 10800} :
         JsGe(TotalDuration, Whole(o + 300)) =>
           \E i \in 1..Len(fr) :
             /\ fr[i].offset = o
             /\ \A d \in {300, 600, 1200, 3600} :
                  JsLe(Whole(o + d), TotalDuration) =>
                    \E e \in 1..Len(fr[i].bestByDuration) :
                      /\ fr[i].bestByDuration[e].duration = d
                      /\ ~IsNullish(fr[i].bestByDuration[e].best)

\* C25: the fatigue-resistance curve never rises with the offset: for every
\* stream that passes the guard with non-decreasing timestamps, and any two
\* entries at offsets o1 < o2 that both contain a duration d, the best power
\* stored for d at o2 is <= the best power stored for d at o1.
C25_CurveNeverRises ==
  Computed =>
    \A i, j \in 1..Len(metrics.fatigueResistance) :
      LET early == metrics.fatigueResistance[i]
          late == metrics.fatigueResistance[j]
      IN early.offset < late.offset =>
           \A a \in 1..Len(early.bestByDuration), b \in 1..Len(late.bestByDuration) :
             early.bestByDuration[a].duration = late.bestByDuration[b].duration =>
               JsLe(late.bestByDuration[b].best, early.bestByDuration[a].best)

(***************************************************************************)
(* Properties of the Baseline Aggregator                                   *)
(***************************************************************************)
\* the row field behind each field of the baseline
ColumnOf ==
  [pwHrDrift |-> "pw_hr_drift", rolling5Diff |-> "rolling5_diff",
   power150Delta |-> "power_150_delta", z2Early |-> "z2_early", z2Late |-> "z2_late",
   cadenceDrop |-> "cadence_drop", hrCreep |-> "hr_creep"]

\* C14: computeDurabilityBaseline returns null for an empty or missing row
\* sequence; otherwise each of the seven fields is the sum of the field's
\* non-null values divided by their count, null when no row has a non-null
\* value for it, and so the row's own value when there is a single row.
C14_BaselineIsMeanOfNonNull ==
  pc = "baselined" =>
    LET Values(key) ==
          SelectSeq([i \in 1..Len(history.rows) |-> history.rows[i][ColumnOf[key]]],
                    LAMBDA v : ~IsNullish(v))
        Numbers(key) == [i \in 1..Len(Values(key)) |-> NumberOf(Values(key)[i])]
    IN IF history.missing \/ Len(history.rows) = 0 THEN baseline.isNull
       ELSE /\ ~baseline.isNull
            /\ \A key \in DOMAIN ColumnOf :
                 /\ baseline[key] =
                      IF Len(Values(key)) = 0 THEN Null
                      ELSE JsDiv(Sum(Numbers(key)), Whole(Len(Values(key))))
                 /\ Len(history.rows) = 1 =>
                      baseline[key] =
                        IF IsNullish(history.rows[1][ColumnOf[key]]) THEN Null
                        ELSE NumberOf(history.rows[1][ColumnOf[key]])

\* three rows, one of them without a drift value: the drift baseline is the
\* mean 5/4 of 3 and '-0.5', and a field without any value is null
C14_Witness ==
  /\ pc = "baselined"
  /\ Len(history.rows) = 3
  /\ \E i \in 1..3 : IsNullish(history.rows[i].pw_hr_drift)
  /\ baseline.pwHrDrift = Rat(5, 4)
  /\ baseline.rolling5Diff = Null

C19_ClampIdempotent ==
  /\ (pc = "reclamped" /\ args.value.k # "str") => result[2] = result[1]
  /\ (/\ pc \in {"clamped", "reclamped"}
      /\ args.value.k \in {"num", "inf", "ninf"}
      /\ JsLe(args.min, args.value)
      /\ JsLe(args.value, args.max)) => result[1] = args.value

\* a value above the range moved to the upper bound, and kept there by the second clamp
C19_Witness ==
  /\ pc = "reclamped"
  /\ args.value = Whole(10)
  /\ args.min = Whole(0)
  /\ args.max = Whole(3)
  /\ result = <<Whole(3), Whole(3)>>

(***************************************************************************)
(* Scenarios of the Metrics Engine                                         *)
(***************************************************************************)
\* time, watts and heartrate have the same number of samples
Aligned == Len(streams.watts) = Len(streams.time) /\ Len(streams.heartrate) = Len(streams.time)

\* heartrate is one constant number
ConstantHeartrate ==
  \A i \in 1..Len(streams.heartrate) :
    streams.heartrate[i].k = "num" /\ streams.heartrate[i] = streams.heartrate[1]

\* C17: for every stream of n >= 10 evenly spaced samples starting at time 0
\* whose watts is one positive constant and whose heartrate is one constant
\* within [40, 220], calculateMetrics returns pwHrDrift = 0, powerFade = 0 and
\* durabilityScore = 100.
C17_SteadyRideScoresFull ==
  (/\ Computed
   /\ Aligned
   /\ \A i \in 1..Len(streams.time) :
        streams.time[i] = JsMul(Whole(i - 1), streams.time[2])
   /\ \A i \in 1..Len(streams.watts) :
        streams.watts[i] = streams.watts[1] /\ JsGt(streams.watts[i], Whole(0))
   /\ ConstantHeartrate
   /\ JsLe(Whole(40), streams.heartrate[1])
   /\ JsLe(streams.heartrate[1], Whole(220))) =>
    /\ metrics.pwHrDrift = Whole(0)
    /\ metrics.powerFade = Whole(0)
    /\ metrics.durabilityScore = Whole(100)

\* a steady ride sampled once a minute: 240 W at 120 bpm throughout
C17_Witness ==
  /\ Computed
  /\ Aligned
  /\ \A i \in 1..Len(streams.time) : streams.time[i] = Whole(60 * (i - 1))
  /\ \A i \in 1..Len(streams.watts) : streams.watts[i] = Whole(240)
  /\ \A i \in 1..Len(streams.heartrate) : streams.heartrate[i] = Whole(120)
  /\ metrics.durabilityScore = Whole(100)

\* C18: for every stream of n >= 10 samples with strictly increasing timestamps
\* starting at 0, strictly decreasing positive watts and one constant heartrate
\* within [40, 220], calculateMetrics returns powerFade > 0, pwHrDrift < 0 and
\* wattsPerBeatTrend.slopePerHour < 0.
C18_FadingRideShowsDecline ==
  (/\ Computed
   /\ Aligned
   /\ streams.time[1] = Whole(0)
   /\ \A i \in 2..Len(streams.time) : JsLt(streams.time[i - 1], streams.time[i])
   /\ \A i \in 1..Len(streams.watts) : JsGt(streams.watts[i], Whole(0))
   /\ \A i \in 2..Len(streams.watts) : JsLt(streams.watts[i], streams.watts[i - 1])
   /\ ConstantHeartrate
   /\ JsLe(Whole(40), streams.heartrate[1])
   /\ JsLe(streams.heartrate[1], Whole(220))) =>
    /\ metrics.powerFade.k = "num" /\ JsGt(metrics.powerFade, Whole(0))
    /\ metrics.pwHrDrift.k = "num" /\ JsLt(metrics.pwHrDrift, Whole(0))
    /\ metrics.wattsPerBeatTrend.slopePerHour.k = "num"
    /\ JsLt(metrics.wattsPerBeatTrend.slopePerHour, Whole(0))

\* a ride whose power falls by 40 W per sample at 120 bpm, with a recording gap
\* that leaves the last three quartiles to the last sample
C18_Witness ==
  /\ Computed
  /\ Aligned
  /\ \A i \in 2..Len(streams.watts) :
       streams.watts[i] = JsSub(streams.watts[i - 1], Whole(40))
  /\ \A i \in 1..Len(streams.heartrate) : streams.heartrate[i] = Whole(120)
  /\ metrics.segments.quartiles[2] = <<LastIndex, LastIndex>>
  /\ JsGt(metrics.powerFade, Whole(0))
  /\ JsLt(metrics.wattsPerBeatTrend.slopePerHour, Whole(0))

(***************************************************************************)
(* Properties of normalizedPower                                           *)
(***************************************************************************)
\* normalizedPower returned for a sequence of at least 30 samples
Normalized == pc = "normalized" /\ Len(args.values) >= MinPowerSamples

\* the averages of the 30-second windows normalizedPower is computed from
WindowAverages ==
  LET rolling == rollingAverage(args.values, rebaseTime(args.times), Whole(30))
  IN [i \in 1..Len(rolling) |-> rolling[i].average]

\* x >= y for a number y and for x a number or the fourth root of a radicand
NotBelow(x, y) ==
  IF x.k = "root4"
    THEN \/ JsLe(y, Whole(0))
         \/ JsGe(JsDiv(JsDiv(JsDiv(JsDiv(Rat(x.n, x.d), y), y), y), y), Whole(1))
  ELSE JsGe(x, y)

\* all power samples are equal
ConstantPower == \A i \in 1..Len(args.values) : args.values[i] = args.values[1]

\* C16 as stated: for every power sequence of at least 30 samples with
\* non-decreasing times for which normalizedPower is non-null, normalizedPower
\* is >= the arithmetic mean of the same power samples, and it equals that mean
\* when all power samples are equal.
C16_AtLeastMeanOfSamples ==
  (Normalized /\ ~IsNullish(result[1])) =>
    /\ NotBelow(result[1], mean(args.values))
    /\ ConstantPower => result[1] = mean(args.values)

\* C16: for every power sequence of at least 30 samples with non-decreasing
\* times for which normalizedPower is non-null, normalizedPower is >= the
\* arithmetic mean of the 30-second window averages it is computed from, and
\* it equals the mean of the power samples when all power samples are equal.
C16_AtLeastMeanOfWindows ==
  (Normalized /\ ~IsNullish(result[1])) =>
    /\ NotBelow(result[1], mean(WindowAverages))
    /\ ConstantPower => result[1] = mean(args.values)

\* a ride sampled every 30 s whose normalized power is an irrational number
\* between the mean of its window averages and the mean of its samples
C16_Witness ==
  /\ Normalized
  /\ result[1].k = "root4"
  /\ NotBelow(result[1], mean(WindowAverages))
  /\ ~NotBelow(result[1], mean(args.values))

(***************************************************************************)
(* Properties of interleaved invocations                                   *)
(***************************************************************************)
\* the streams calculateMetrics receives when invocation c runs alone
AloneStreams(c) == sanitizeStreams(c.raw).value

\* every function that has returned in invocation c returned what it returns
\* when the invocation runs alone on its arguments
AsAlone(c) ==
  /\ c.pc \in {"sanitized", "planned", "done", "baselined"} => c.streams = AloneStreams(c)
  /\ c.pc \in {"planned", "done", "baselined"} =>
       c.segments = computeSegments(AloneStreams(c))
  /\ c.pc \in {"done", "baselined"} =>
       c.metrics = calculateMetrics(AloneStreams(c), c.options)
  /\ c.pc = "baselined" => c.baseline = computeDurabilityBaseline(c.history)

\* a step leaves the arguments of every invocation, and the streams handed
\* from one function to the next, as they were
ArgumentsKept ==
  \A i \in 1..MaxCalls :
    /\ calls'[i].raw = calls[i].raw
    /\ calls'[i].options = calls[i].options
    /\ calls'[i].history = calls[i].history
    /\ calls[i].pc \in {"sanitized", "planned", "done"} => calls'[i].streams = calls[i].streams

SpanOf(first, last) == JsSub(args.times[last], args.times[first])

\* the first sample (1-based) at or after from of the longest window that ends
\* at sample last and spans at most windowSeconds
LongestFrom(from, last) ==
  CHOOSE first \in from..last :
    /\ JsLe(SpanOf(first, last), args.windowSeconds)
    /\ \A other \in from..(first - 1) : ~JsLe(SpanOf(other, last), args.windowSeconds)

\* the span of the samples first..last is within [windowSeconds - 1, windowSeconds]
FullWindow(first, last) ==
  /\ JsLe(SpanOf(first, last), args.windowSeconds)
  /\ JsGe(SpanOf(first, last), JsSub(args.windowSeconds, Whole(1)))

\* the arithmetic mean of the values first..last
MeanOver(first, last) == mean(SubSeq(args.values, first, last))

\* C23: rollingAverage(values, times, w) over non-decreasing times emits at
\* most one result per right endpoint, in increasing endpoint order; each
\* emitted result {start, end, average} has start <= end, is the longest window
\* ending at end whose time span is <= w, has a time span within [w - 1, w], and
\* has average equal to the arithmetic mean of values[start..end]; the start
\* index never decreases from one result to the next.
C23_RollingWindows ==
  pc = "rolled" =>
    /\ \A i \in 2..Len(result[1]) :
         /\ result[1][i - 1].end < result[1][i].end
         /\ result[1][i - 1].start <= result[1][i].start
    /\ \A i \in 1..Len(result[1]) :
         LET r == result[1][i]
         IN /\ 0 <= r.start /\ r.start <= r.end /\ r.end < Len(args.values)
            /\ r.start + 1 = LongestFrom(1, r.end + 1)
            /\ FullWindow(r.start + 1, r.end + 1)
            /\ r.average = MeanOver(r.start + 1, r.end + 1)

\* a search that shrank its window: a result that starts after the first sample
\* and follows a result that starts at it
C23_Witness ==
  /\ pc = "rolled"
  /\ Len(result[1]) >= 2
  /\ result[1][1].start = 0
  /\ result[1][Len(result[1])].start > 0
  /\ result[1][Len(result[1])].average # result[1][1].average

\* the first sample (1-based) with time >= startTime, 0 when there is none
FirstAtOrAfter ==
  IF \E i \in 1..Len(args.times) : JsGe(args.times[i], args.startTime)
    THEN CHOOSE i \in 1..Len(args.times) :
           /\ JsGe(args.times[i], args.startTime)
           /\ \A j \in 1..(i - 1) : ~JsGe(args.times[j], args.startTime)
  ELSE 0

\* the right endpoints (1-based) whose longest window from the first sample at
\* or after startTime has a span within [windowSeconds - 1, windowSeconds]
Endpoints ==
  IF FirstAtOrAfter = 0 THEN {}
  ELSE {last \in FirstAtOrAfter..Len(args.values) :
          FullWindow(LongestFrom(FirstAtOrAfter, last), last)}

\* the mean of the longest window that ends at sample last
WindowMean(last) == MeanOver(LongestFrom(FirstAtOrAfter, last), last)

\* C22: computeBestAveragePower(values, times, w, startTime) over
\* non-decreasing times considers only windows whose first sample has time >=
\* startTime, and returns the maximum, over right endpoints e, of the mean of
\* values over the longest such window ending at e with span <= w, taken over
\* those e whose window span is >= w - 1; it returns null exactly when there
\* are fewer than 2 values, no sample has time >= startTime, or no right
\* endpoint has a window with span within [w - 1, w].
C22_BestIsMaxOfWindowMeans ==
  pc = "searched" =>
    IF Len(args.values) < 2 \/ Endpoints = {} THEN result[1] = Null
    ELSE /\ \E last \in Endpoints : result[1] = WindowMean(last)
         /\ \A last \in Endpoints : JsGe(result[1], WindowMean(last))

\* a search from an offset inside the ride whose best window is not the last one
C22_Witness ==
  /\ pc = "searched"
  /\ FirstAtOrAfter > 1
  /\ Cardinality(Endpoints) >= 2
  /\ \E last \in Endpoints : JsGt(result[1], WindowMean(last))

(***************************************************************************)
(* Properties of the Zone Classifier                                       *)
(***************************************************************************)
\* C24: the final sample of a segment carries no weight in the zone share:
\* for both computeTimeInRange and computeHrrTimeInRange, two inputs that have
\* the same times and differ only in the heart-rate value of the last sample
\* give the same seconds and ratio, and a segment with a single sample gives
\* ratio 0.
C24_LastSampleCarriesNoWeight ==
  pc \in {"ranged", "reserved"} =>
    /\ result[1].seconds = result[2].seconds
    /\ result[1].ratio = result[2].ratio
    /\ Len(args.values) = 1 => result[1].ratio = Whole(0)

\* a segment that is in the band for a part of its time and whose last heart
\* rate is moved out of the band
C24_Witness ==
  /\ pc = "reserved"
  /\ Len(args.values) = MaxZoneLen
  /\ args.values[Len(args.values)] = Whole(130)
  /\ args.last = Whole(100)
  /\ JsGt(result[1].ratio, Whole(0))
  /\ JsLt(result[1].ratio, Whole(1))

(***************************************************************************)
(* Properties of processActivity                                           *)
(***************************************************************************)
\* the error sentinels of calculateMetrics
IsSentinel(m) ==
  m \in {[error |-> "Insufficient data"], [error |-> "Unable to split segments"]}

\* the calls invocation i has completed
CallsDone(i) == {calls[i].done[k] : k \in 1..Len(calls[i].done)}

\* C21: an invocation whose calculateMetrics returned an error sentinel has
\* returned without raising, and has neither updated the description, nor
\* saved a metrics row, nor marked the activity processed
C21_SentinelEndsQuietly ==
  pc = "proc" =>
    \A i \in 1..MaxRuns :
      IsSentinel(calls[i].metrics) =>
        /\ calls[i].pc = "nometrics"
        /\ calls[i].failed = "none"
        /\ CallsDone(i) \cap {"history", "update", "save", "mark"} = {}

\* one invocation stopped at the sentinel of a ride of nine samples, next to
\* one that ran to its end
C21_Witness ==
  /\ pc = "proc"
  /\ calls[1].pc = "nometrics"
  /\ calls[1].metrics = [error |-> "Insufficient data"]
  /\ CallsDone(1) = {"token", "activity", "streams"}
  /\ calls[2].pc = "returned"

\* C26: the description of the activity is written at most once, whatever
\* the number and the interleaving of the invocations
C26_AtMostOneUpdate == pc = "proc" => net.updates <= 1

\* the calls of an invocation up to saveAthleteMetrics, in the order of the code
BeforeMark(d) ==
  /\ Len(d) >= 6
  /\ d[1] = "token"
  /\ {d[2], d[3]} = {"activity", "streams"}
  /\ d[4] = "history"
  /\ d[5] = "update"
  /\ d[6] = "save"

\* invocation i is in or past its call of markActivityProcessed
MarkCalled(i) == calls[i].pc = "mark" \/ "mark" \in CallsDone(i)

\* what holds of the invocations in every state
OrderKept ==
  \A i \in 1..MaxRuns :
    /\ MarkCalled(i) => BeforeMark(calls[i].done) /\ calls[i].failed = "none"
    /\ calls[i].failed # "none" => calls[i].pc = "raised" /\ ~MarkCalled(i)
    /\ calls[i].late => calls[i].pc = "skipped" /\ calls[i].done = <<>>

\* an invocation that starts on a marked activity calls nothing, and an
\* invocation that has returned or raised stays where it is
SkipsOnceMarked ==
  \A i \in 1..MaxRuns :
    /\ (db.pool /\ db.processed /\ calls[i].pc = "queued") =>
         (calls'[i].pc \in {"queued", "skipped", "raised"} /\ calls'[i].done = <<>>)
    /\ calls[i].pc \in {"skipped", "raised", "nometrics", "returned"} =>
         (calls'[i] = calls[i])
    /\ db.processed => db'.processed

\* C27: markActivityProcessed is called only after the token lookup, the two
\* fetches, the description update and the metrics save have completed in that
\* order; an invocation in which one of them raised re-raises and never marks;
\* an invocation started on a marked activity makes no call and no write
C27_MarkedLastAndOnce == []OrderKept /\ [][SkipsOnceMarked]_vars

\* one invocation ran to the mark, the one after it was skipped
C27_Witness ==
  /\ pc = "proc"
  /\ \E i, j \in 1..MaxRuns :
       /\ calls[i].pc = "returned"
       /\ BeforeMark(calls[i].done)
       /\ calls[i].done[7] = "mark"
       /\ db.processed
       /\ calls[j].late
       /\ calls[j].pc = "skipped"

(***************************************************************************)
(* Properties of the Rate Limiter                                          *)
(***************************************************************************)
\* C28: no more than 200 calls are granted within a span of 15 minutes and no
\* more than 2000 within a span of 24 hours
C28_WindowedLimits ==
  pc = "limiter" =>
    /\ clock - args.from < FIFTEEN_MINUTES => calls.granted <= 200
    /\ clock - args.from < ONE_DAY => calls.granted <= 2000

BucketBounds(bucket, now) ==
  /\ 0 <= bucket.tokens
  /\ bucket.tokens <= bucket.capacity
  /\ bucket.lastRefill <= now

\* what holds of the two buckets in every state
BucketsInBounds ==
  /\ BucketBounds(buckets.short, clock)
  /\ BucketBounds(buckets.daily, clock)

\* a call is granted
Granted == result'.outcome = "granted"

\* what holds of every call of consumeToken, r the buckets after their refill
BothOrNeither ==
  args'.pending < args.pending =>
    LET r == refilled(buckets, clock)
    IN /\ Granted <=> (r.short.tokens > 0 /\ r.daily.tokens > 0)
       /\ Granted =>
            /\ buckets'.short.tokens = r.short.tokens - 1
            /\ buckets'.daily.tokens = r.daily.tokens - 1
       /\ ~Granted =>
            /\ buckets'.short.tokens = r.short.tokens
            /\ buckets'.daily.tokens = r.daily.tokens

\* C29: both buckets keep 0 <= tokens <= capacity and lastRefill <= now; a call
\* takes one token from each bucket or none from either, counted from the
\* buckets as refilled by the call; it is denied exactly when one of the
\* refilled buckets has no token
C29_BucketsKeptTogether == []BucketsInBounds /\ [][BothOrNeither]_vars

\* a call was denied by the daily bucket alone, after a refill of the short one
C29_Witness ==
  /\ pc = "limiter"
  /\ result.outcome = "denied"
  /\ buckets.daily.tokens = 0
  /\ buckets.short.tokens = 200
  /\ buckets.short.lastRefill > 0

(***************************************************************************)
(* Properties of axiosWithRetry                                            *)
(***************************************************************************)
\* the delay before attempt k + 1: 5 minutes, then 10 minutes
DelayAfter(k) == IF k = 1 THEN 300000 ELSE 600000

\* what holds of an invocation with attempts >= 1 in every state
RetryKept ==
  calls.attempts >= 1 =>
    /\ calls.requests <= calls.attempts
    /\ calls.attempt <= calls.attempts
    /\ calls.reserved = calls.requests
    /\ Len(calls.waits) = IF calls.pc = "waiting" THEN calls.attempt ELSE calls.attempt - 1
    /\ \A k \in 1..Len(calls.waits) :
         calls.responses[k] = "429" /\ calls.waits[k] = DelayAfter(k)
    /\ \A k \in 1..Len(calls.responses) :
         (calls.responses[k] = "429" /\ k < calls.attempts) \/ k = Len(calls.responses)
    /\ result.outcome = "returned" => calls.responses[Len(calls.responses)] = "200"
    /\ result.error # "axiosWithRetry exhausted attempts"

\* a token taken by this step
TokenTaken ==
  /\ buckets'.short.tokens = refilled(buckets, clock).short.tokens - 1
  /\ buckets'.daily.tokens = refilled(buckets, clock).daily.tokens - 1

\* what holds of every step of an invocation with attempts >= 1: a request is
\* sent with one token taken just before it; a failure other than a 429 with
\* attempts left, the empty bucket included, ends the invocation at once, no
\* request sent after it; an attempt follows a wait only
RetrySteps ==
  calls.attempts >= 1 =>
    /\ calls'.requests = calls.requests + 1 <=> (calls.pc = "loop" /\ TokenTaken)
    /\ calls'.requests \in {calls.requests, calls.requests + 1}
    /\ (calls.pc = "loop" /\ ~consumeToken(buckets, clock).granted) =>
         (result'.outcome = "raised" /\ calls'.requests = calls.requests)
    /\ (calls.pc = "request" /\ calls'.pc = "ended" /\ result'.outcome = "raised") =>
         /\ calls'.requests = calls.requests
         /\ ~(calls'.responses[Len(calls'.responses)] = "429" /\ calls.attempt < calls.attempts)
    /\ (calls.pc = "request" /\ calls'.pc = "waiting") =>
         (calls'.responses[Len(calls'.responses)] = "429" /\ calls.attempt < calls.attempts)
    /\ calls'.attempt # calls.attempt =>
         (calls.pc = "waiting" /\ clock' = clock + DelayAfter(calls.attempt))
    /\ calls.pc = "ended" => (calls' = calls /\ buckets' = buckets)

\* the invocation has returned a response or raised
Ended == calls.pc = "ended" /\ result.outcome \in {"returned", "raised"}

\* C30: axiosWithRetry with attempts = n >= 1 ends by returning or raising
\* after at most n requests; one token is reserved before each request; a new
\* attempt follows only a 429 response with attempts left, after a wait of
\* min(5 min * 2^(attempt - 1), 10 min); every other failure, the empty bucket
\* included, is raised at once and no request is sent
C30_RetryOnlyOn429 == []RetryKept /\ [][RetrySteps]_vars /\ <>Ended

\* four requests, each answered 429, with waits of 5, 10 and 10 minutes: the
\* last 429 is raised
C30_Witness ==
  /\ pc = "retry"
  /\ calls.attempts = 4
  /\ calls.requests = 4
  /\ calls.waits = <<300000, 600000, 600000>>
  /\ result = [outcome |-> "raised", error |-> "429"]

====
